---- MODULE Spec2Model ----
(***************************************************************************)
(* A state-machine model of xrizer's input layer: the three handle maps,   *)
(* the per-session action slots, the legacy action set, the custom binding *)
(* evaluators and the tracked-device pose cache.                           *)
(*                                                                         *)
(* Paths are modelled as sequences of one-character symbols so that the    *)
(* lower-casing the code applies to action and action-set names is a real  *)
(* conversion.  Floating point inputs are modelled in thousandths.          *)
(***************************************************************************)
EXTENDS Integers, Sequences, FiniteSets, TLC

VARIABLES
    input_source_map,     \* Input::input_source_map : SlotMap<InputSourceKey, CString>
    action_map,           \* Input::action_map       : SlotMap<ActionKey, Action>
    set_map,              \* Input::set_map          : SlotMap<ActionSetKey, String>
    loaded_actions_path,  \* Input::loaded_actions_path : OnceLock<PathBuf>
    session_data,         \* OpenXrData::session_data (the current session)
    panicked,             \* a thread of the process has panicked
    pc,                   \* position of each thread inside the call it runs
    ret,                  \* what the last completed call returned
    remembered,           \* an earlier return value the application kept
    legacy_state,         \* Input::legacy_state : LegacyState
    xr_input,             \* what the controllers physically report right now
    events,               \* Input::events : Mutex<VecDeque<InputEvent>>
    binding_kind,         \* how the manifest's binding file binds its boolean action
    binding_params,       \* the parameters the binding file gives that binding
    bind_input,           \* what the bound input source physically reports right now
    last_period,          \* a read kept from the previous sync period, when the
                          \* bound input did not move during that period
    same_input,           \* the bound input has not moved since the last sync
    devices,              \* TrackedDeviceList::devices (each device's pose_cache)
    restarted_in_frame,   \* the session was replaced since the last frame_start_update
    world                 \* where the tracked devices physically are right now

handle_vars == <<input_source_map, action_map, set_map>>
legacy_vars == <<legacy_state, xr_input, events>>
bind_vars == <<binding_kind, binding_params, bind_input, last_period, same_input>>
pose_vars == <<devices, restarted_in_frame, world>>

vars == <<input_source_map, action_map, set_map, loaded_actions_path,
          session_data, panicked, pc, ret, remembered,
          legacy_state, xr_input, events,
          binding_kind, binding_params, bind_input, last_period, same_input,
          devices, restarted_in_frame, world>>

----------------------------------------------------------------------------
(* Bounds of the model                                                     *)

\* Syncs are explored until the packet counter reaches this value.
MaxPacketNum == 3

\* The event queue is explored up to this length.
MaxEvents == 2

\* Frames are counted up to this number.
MaxFrames == 2

----------------------------------------------------------------------------
(* slotmap keys and their FFI encoding                                     *)

\* Version of a key handed out for a slot that was never vacated.
InitialVersion == 1

KeyAt(i) == [idx |-> i, version |-> InitialVersion]

\* A 64-bit handle value is modelled as its two 32-bit words.
U64(hi, lo) == [hi |-> hi, lo |-> lo]

\* k_ulInvalidActionHandle, k_ulInvalidActionSetHandle, k_ulInvalidInputValueHandle
InvalidHandle == U64(0, 0)

\* KeyData::as_ffi: (version << 32) | idx
as_ffi(key) == U64(key.version, key.idx)

\* KeyData::from_ffi: the low word is the index, the high word or-ed with 1
\* (versions of occupied slots are odd) is the version.
from_ffi(value) ==
    [idx |-> value.lo,
     version |-> IF value.hi % 2 = 0 THEN value.hi + 1 ELSE value.hi]

\* SlotMap::insert on a map nothing is ever removed from: the next index.
slot_insert(map, value) == Append(map, value)

\* SlotMap::get / SecondaryMap::get: index in range and versions equal.
slot_contains(indices, key) ==
    key.idx \in indices /\ key.version = InitialVersion

\* guard.iter().find(|(_, v)| v == name): the first slot holding the name.
slot_find(map, name) ==
    IF \E i \in 1..Len(map) : map[i] = name
    THEN CHOOSE i \in 1..Len(map) :
            map[i] = name /\ \A j \in 1..(i - 1) : map[j] /= name
    ELSE 0

----------------------------------------------------------------------------
(* Names                                                                   *)

lower_char(c) ==
    CASE c = "A" -> "a"
      [] c = "B" -> "b"
      [] c = "C" -> "c"
      [] c = "S" -> "s"
      [] c = "T" -> "t"
      [] OTHER -> c

\* str::to_lowercase
to_lowercase(name) == [i \in 1..Len(name) |-> lower_char(name[i])]

\* Two names are equal up to case when they agree symbol by symbol once
\* both symbols are folded to the same case.
EqIgnoreCase(n1, n2) ==
    /\ Len(n1) = Len(n2)
    /\ \A i \in 1..Len(n1) : lower_char(n1[i]) = lower_char(n2[i])

\* Action names an application asks handles for: <<set, action>>.
ActionNames == {<<"s", "a">>, <<"S", "A">>, <<"t", "c">>}

\* Action set names an application asks handles for.
SetNames == {<<"s">>, <<"S">>, <<"t">>}

LeftHandPath == <<"/user/hand/left">>
RightHandPath == <<"/user/hand/right">>

\* Input source paths an application asks handles for.
SourceNames == {LeftHandPath, <<"/user/head">>}

\* The action manifest on disk: its sets and actions, cased as written.
ManifestSets == << <<"S">> >>
ManifestActions == << <<"S", "a">>, <<"s", "B">>, <<"s", "h">>, <<"s", "v">> >>

\* The manifest declares its third and its fourth action as vibrations.
ManifestHaptics == <<ManifestActions[3], ManifestActions[4]>>

ManifestPath == "actions.json"
NoPath == "unset"

----------------------------------------------------------------------------
(* Legacy input state                                                      *)

Hands == {"left", "right"}

\* Tracked device indices an application passes: the HMD, the two
\* controllers and an index no device has.
DeviceIndices == {0, 1, 2, 3}

\* Input::device_index_to_hand with both controllers connected.
device_index_to_hand(index) ==
    CASE index = 1 -> "left"
      [] index = 2 -> "right"
      [] OTHER -> "none"

\* The boolean legacy actions read_button looks at: the trigger click and
\* the click and touch of the main thumbstick or trackpad.
LegacyBooleans == {"trigger_click", "main_xy_click", "main_xy_touch"}

\* State of the legacy boolean actions of each hand in a session that has
\* not synced yet.
NoActionState ==
    [h \in Hands |-> [a \in LegacyBooleans |->
        [current_state |-> FALSE, changed_since_last_sync |-> FALSE]]]

\* xrSyncActions with the legacy set active: each hand's action takes the
\* physical value and reports whether that differs from the previous sync.
sync_actions(synced, input) ==
    [h \in Hands |-> [a \in LegacyBooleans |->
        [current_state |-> input[h][a],
         changed_since_last_sync |-> input[h][a] /= synced[h][a].current_state]]]

\* A sync that leaves the flags of the reads already made in place.
on_action_sync_keeps_flags(state) ==
    [state EXCEPT !.packet_num = @ + 1]

\* A sync that clears the flags but leaves the packet counter alone.
on_action_sync_keeps_packet_num(state) ==
    [state EXCEPT !.got_state_this_frame = [h \in Hands |-> FALSE]]

\* LegacyState::on_action_sync.  The packet counter is an AtomicU32; its
\* wrap-around lies beyond the syncs explored (MaxPacketNum).
on_action_sync(state) ==
    [packet_num |-> state.packet_num + 1,
     got_state_this_frame |-> [h \in Hands |-> FALSE]]

----------------------------------------------------------------------------
(* Inputs of the custom bindings                                           *)

\* The ways the manifest's boolean action can be bound: directly, through
\* the dpad_data or grab_data of its action data, or through a BindingData
\* of one of the binding types.
BindingKinds == {"direct", "dpad_data", "grab_data", "Dpad", "Grab", "Toggle", "Threshold"}

\* The action is bound to a boolean input and carries both dpad data and
\* grab data (a manifest whose profiles bind the same action differently).
MixedKinds == {"mixed"}

\* What the bound input source reports: whether it is bound on the current
\* interaction profile, its click, its force and value (in thousandths),
\* whether its x/y position lies in the wedge of the action data's dpad,
\* the x/y position itself (in thousandths) and, for an action bound to a
\* boolean input next to its dpad and grab data, whether that input is
\* bound on the current interaction profile and whether it is pressed.
BindInput(active, click, force, value, in_bounds) ==
    [active |-> active, click |-> click, force |-> force, value |-> value,
     in_bounds |-> in_bounds, x |-> 0, y |-> 0,
     native_bound |-> FALSE, native |-> FALSE]

\* A controller with a boolean input next to the dpad and grab sources.
MixedInput(native_bound, native, input) ==
    [input EXCEPT !.native_bound = native_bound, !.native = native_bound /\ native]

\* A trackpad or thumbstick at (x, y) pressed with `force`.
DpadInput(active, force, x, y) ==
    [BindInput(active, force > 0, force, 0, FALSE) EXCEPT !.x = x, !.y = y]

NoBindInput == BindInput(FALSE, FALSE, 0, 0, FALSE)

\* The physical inputs explored for each kind of binding: values on either
\* side of, and between, the thresholds the kind compares against.
BindInputs(kind) ==
    {NoBindInput} \cup
    CASE kind \in {"direct", "Toggle"} ->
            {BindInput(TRUE, c, 0, 0, FALSE) : c \in BOOLEAN}
      [] kind = "Threshold" ->
            {BindInput(TRUE, FALSE, 0, v, FALSE) : v \in {100, 220, 500}}
      [] kind \in {"grab_data", "Grab"} ->
            {BindInput(TRUE, FALSE, 0, v, FALSE) : v \in {100, 670, 1000}}
                \cup {BindInput(TRUE, FALSE, 200, 100, FALSE)}
      [] kind = "dpad_data" ->
            {BindInput(TRUE, f > 0, f, 0, FALSE) : f \in {0, 250, 500}}
                \cup {BindInput(TRUE, TRUE, 500, 0, TRUE)}
      [] kind = "Dpad" ->
            {DpadInput(TRUE, f, 900, 0) : f \in {0, 250, 500}}
                \cup {DpadInput(TRUE, 500, 0, 900)}

\* xr::ActionState<bool>
ActionState(is_active, current_state, changed_since_last_sync) ==
    [is_active |-> is_active, current_state |-> current_state,
     changed_since_last_sync |-> changed_since_last_sync]

\* State of the bound input as of a sync: its values, and whether the click
\* differs from the sync before.
NoBindState == [input |-> NoBindInput, click_changed |-> FALSE, native_changed |-> FALSE]

sync_bind_state(synced, input) ==
    [input |-> input,
     click_changed |-> input.active /\ input.click /= synced.input.click,
     native_changed |-> input.native_bound /\ input.native /= synced.input.native]

\* Option<f32>
NoneF32 == [some |-> FALSE, value |-> 0]
SomeF32(value) == [some |-> TRUE, value |-> value]
unwrap_or(option, default) == IF option.some THEN option.value ELSE default

DpadDirections == {"North", "East", "South", "West", "Center"}

\* What the binding file says about the binding: the grab's
\* value_hold_threshold and value_release_threshold, the threshold's
\* click_activate_threshold and click_deactivate_threshold, the dpad's
\* direction and whether its parent has an activator (click_or_touch).
BindingParams(hold, release, activate, deactivate, direction, click_or_touch) ==
    [value_hold_threshold |-> hold, value_release_threshold |-> release,
     click_activate_threshold |-> activate, click_deactivate_threshold |-> deactivate,
     direction |-> direction, click_or_touch |-> click_or_touch]

\* A binding without parameters; its dpad is the force-activated north one.
NoParams == BindingParams(NoneF32, NoneF32, NoneF32, NoneF32, "North", TRUE)

\* InputDigitalActionData_t of an action that is not active (its default).
NoData == [active |-> FALSE, state |-> FALSE, changed |-> FALSE]

\* What the InputDigitalActionData_t the application passes in can hold
\* before the call: the default, or the leftovers of something else.
BadData == [active |-> TRUE, state |-> TRUE, changed |-> TRUE]
PriorData == {NoData, BadData}

\* InputAnalogActionData_t: bActive, x and deltaX (in thousandths).
AnalogData(active, x, deltaX) == [active |-> active, x |-> x, deltaX |-> deltaX]
NoAnalog == AnalogData(FALSE, 0, 0)
BadAnalog == AnalogData(TRUE, 300000, 1000000)
PriorAnalog == {NoAnalog, BadAnalog}

\* VRControllerState_t: unPacketNum and the ids set in ulButtonPressed and
\* ulButtonTouched.
ControllerState(packet_num, pressed, touched) ==
    [packet_num |-> packet_num, pressed |-> pressed, touched |-> touched]
NoControllerState == ControllerState(0, {}, {})
BadControllerState == ControllerState(0, {"Grip"}, {"Grip"})
PriorControllerState == {NoControllerState, BadControllerState}

----------------------------------------------------------------------------
(* Tracked devices and poses                                               *)

\* The device table with both controllers connected: HMD, left, right.
Devices == {0, 1, 2}

Origins == {"Seated", "Standing"}

\* Physical arrangements of the devices that are told apart.
Worlds == {"here", "there"}

\* Interaction profiles a controller can report.
Profiles == {"SimpleController", "Touch"}

\* Where a device is found: the physical arrangement, and the interaction
\* profile whose grip offset the controller's raw space is built with.
raw_at(at, profile) == [world |-> at, profile |-> profile]

\* Option<TrackedDevicePose_t>::None
NoPose == [origin |-> "none", at |-> raw_at("nowhere", "none")]

\* TrackedDevicePose_t::default()
DefaultPose == [origin |-> "none", at |-> raw_at("default", "none")]

\* The pose of a device located relative to the space of `origin`.
located_pose(at, origin) == [origin |-> origin, at |-> at]

\* TrackedDevice::new: nothing cached; the HMD has no interaction profile,
\* a controller is created with the profile it was detected with.
TrackedDevice_new(index) ==
    [pose_cache |-> NoPose,
     interaction_profile |-> IF index = 0 THEN "none" ELSE "SimpleController"]

\* TrackedDevice::clear_pose_cache
clear_pose_cache(device) == [device EXCEPT !.pose_cache = NoPose]

\* A fetch that relates the spaces anew on every call.
get_pose_uncached(device, at, origin) ==
    [pose |-> located_pose(raw_at(at, device.interaction_profile), origin),
     device |-> device]

\* TrackedDevice::get_pose: the cached pose if there is one, else the pose
\* of the device related to the space of `origin`, which is cached.
get_pose(device, at, origin) ==
    IF device.pose_cache /= NoPose
    THEN [pose |-> device.pose_cache, device |-> device]
    ELSE LET pose == located_pose(raw_at(at, device.interaction_profile), origin)
         IN  [pose |-> pose, device |-> [device EXCEPT !.pose_cache = pose]]

\* TrackedDeviceList::get_controller_index with both controllers connected.
get_controller_index(hand) == IF hand = "left" THEN 1 ELSE 2

\* vr::k_unMaxTrackedDeviceCount is 64; the table is explored with this
\* capacity.
k_unMaxTrackedDeviceCount == 5

\* Option<TrackedDeviceIndex_t>::None
NoIndex == 0 - 1

\* TrackedDeviceType
Hmd == [kind |-> "Hmd", hand |-> "none", serial |-> 0]
Controller(hand) == [kind |-> "Controller", hand |-> hand, serial |-> 0]
GenericTracker(serial) == [kind |-> "GenericTracker", hand |-> "none", serial |-> serial]

\* TrackedDevice::new: only the HMD starts connected.
new_device(device_type, interaction_profile) ==
    [device_type |-> device_type,
     interaction_profile |-> interaction_profile,
     connected |-> (device_type = Hmd),
     previous_connected |-> FALSE]

\* TrackedDeviceList::default
TrackedDeviceList_default == <<new_device(Hmd, "none")>>

\* What get_device finds at an index past the end of the list.
NoDevice == [new_device(Hmd, "none") EXCEPT !.device_type.kind = "none", !.connected = FALSE]

\* TrackedDeviceList::get_device: device indices count from 0.
get_device(list, device_index) ==
    IF device_index < Len(list) THEN list[device_index + 1] ELSE NoDevice

\* TrackedDevice::get_controller_hand
get_controller_hand(device) ==
    IF device.device_type.kind = "Controller" THEN device.device_type.hand ELSE "none"

\* A list that lets a device in while it has room beyond the capacity.
push_device_unchecked(list, device) ==
    [list |-> Append(list, device), err |-> "None", index |-> Len(list)]

\* TrackedDeviceList::push_device
push_device(list, device) ==
    IF Len(list) >= k_unMaxTrackedDeviceCount
    THEN [list |-> list, err |-> "MaxCapacityReached", index |-> NoIndex]
    ELSE [list |-> Append(list, device), err |-> "None", index |-> Len(list)]

\* TrackedDeviceList::get_controller_index: the first device of that hand.
find_controller_index(list, hand) ==
    LET found == {i \in 1..Len(list) : get_controller_hand(list[i]) = hand}
    IN  IF found = {} THEN NoIndex
        ELSE (CHOOSE i \in found : \A j \in found : i <= j) - 1

\* An external device the runtime lists (XDev): its name, whether a space
\* can be created for it, and its serial.  Names are spelled with the
\* symbols of the names above; the symbol t stands for the word tracker.
XDev(name, can_create_space, serial) ==
    [name |-> name, can_create_space |-> can_create_space, serial |-> serial]

\* xdev.name().to_lowercase().contains("tracker")
name_contains_tracker(name) ==
    \E i \in 1..Len(name) : to_lowercase(name)[i] = "t"

\* Vec::truncate
truncate(seq, len) == IF Len(seq) > len THEN SubSeq(seq, 1, len) ELSE seq

\* An enumeration that keeps every tracker the runtime lists.
create_monado_generic_trackers_all(list, has_extension, xdevs) ==
    IF ~has_extension THEN list
    ELSE LET kept == SelectSeq(list, LAMBDA d : d.device_type.kind /= "GenericTracker")
             usable == SelectSeq(xdevs, LAMBDA x :
                           x.can_create_space /\ name_contains_tracker(x.name))
         IN  kept \o [i \in 1..Len(usable) |->
                         [new_device(GenericTracker(usable[i].serial), "ViveTracker")
                             EXCEPT !.connected = TRUE]]

\* TrackedDeviceList::create_monado_generic_trackers: nothing without the
\* XR_MNDX_xdev_space extension; else the trackers of the list are dropped
\* and the usable xdevs, as many as fit, are appended as connected trackers.
create_monado_generic_trackers(list, has_extension, xdevs) ==
    IF ~has_extension THEN list
    ELSE LET kept == SelectSeq(list, LAMBDA d : d.device_type.kind /= "GenericTracker")
             max_generic_trackers == k_unMaxTrackedDeviceCount - Len(kept)
             usable == SelectSeq(xdevs, LAMBDA x :
                           x.can_create_space /\ name_contains_tracker(x.name))
             fitting == truncate(usable, max_generic_trackers)
         IN  kept \o [i \in 1..Len(fitting) |->
                         [new_device(GenericTracker(fitting[i].serial), "ViveTracker")
                             EXCEPT !.connected = TRUE]]

\* xrSyncActions makes the suggested interaction profiles current and
\* queues an interaction-profile-changed event when that changes anything.
sync_profiles(data) ==
    [data EXCEPT !.current_profile = data.suggested_profile,
                 !.profile_event = @ \/ data.current_profile /= data.suggested_profile]

----------------------------------------------------------------------------
(* Session data                                                            *)

\* InputSessionData::loaded_actions before it is set.
NoLoadedActions == [is_set |-> FALSE, sets |-> {}, actions |-> {}]

\* BindingState
Unsynced == [synced |-> FALSE, some |-> FALSE, state |-> ActionState(FALSE, FALSE, FALSE)]
Synced(some, state) == [synced |-> TRUE, some |-> some, state |-> state]
SyncedNone == Synced(FALSE, ActionState(FALSE, FALSE, FALSE))

\* The latches and the per-sync memo of the bindings of freshly loaded
\* actions: DpadData::last_state and GrabBindingData::last_state of the
\* action data, and BindingData (its evaluator's latch, DpadData::active,
\* whether the dpad's activator was bound when DpadData::active was stored,
\* and its memo), and FloatActionData::last_value of the vector1 action.
NewBindings ==
    [dpad_last_state |-> FALSE,
     grab_last_state |-> [h \in Hands |-> FALSE],
     ty_last_state |-> FALSE,
     ty_active |-> FALSE,
     ty_activator_bound |-> FALSE,
     last_state |-> Unsynced,
     vec1_last_value |-> 0]

\* BindingData::new for the evaluator the binding file creates for one
\* hand: the hand, the latch of its BindingType and its memo.
BindingData_new(hand) ==
    [hand |-> hand, ty_last_state |-> FALSE, last_state |-> Unsynced]

\* What the runtime holds for the input source of one hand: what the
\* source reports right now, and its state as of the last xrSyncActions.
NoHandSource == [input |-> NoBindInput, bind_state |-> NoBindState]

\* BindingsProfileLoadContext of a load that walks no binding file: the
\* sources of the binding file as (action path, kind of the input path)
\* pairs, how many of them were handled, and the bindings to suggest.
NoLoadContext == [sources |-> <<>>, handled |-> 0, bindings |-> <<>>]

\* A session as restart_session (or construction) leaves it: both one-shot
\* slots empty, no action set attached.  attach_calls counts the calls of
\* xrAttachSessionActionSets made on the session; action_state and
\* bind_state are the states of the legacy click action and of the bound
\* input as of the session's last xrSyncActions; bindings belong to the
\* loaded actions.
\* The tracked devices (InputSessionData::devices) belong to the session
\* as well, and so does what the runtime knows about the session's
\* interaction profiles: the profile each hand will have from the next
\* xrSyncActions on (suggested_profile), the one it has now
\* (current_profile), whether an interaction-profile-changed event waits
\* in the event queue, and how many of the application's frames the
\* session has seen since the suggested profile last changed (frames).
\* hand_bindings are the evaluators of an action the binding file binds on
\* both hands, hand_sources the input sources they read.  load_context
\* belongs to the load of the manifest's binding file on the session;
\* hand_tracker tells for which hands the session's xr::HandTracker is
\* active.  raw is the raw space in each hand's HandSpaces slot (0: the
\* slot is empty, n: the n-th space created for the hand), raw_created the
\* number of raw spaces created for the hand, aim_valid whether the
\* runtime locates the hand's aim pose with a valid position and
\* orientation.
SessionData(real) ==
    [real |-> real,
     loaded_actions |-> NoLoadedActions,
     legacy_actions |-> FALSE,
     attach_calls |-> 0,
     action_state |-> NoActionState,
     bind_state |-> NoBindState,
     bindings |-> NewBindings,
     hand_bindings |-> [h \in Hands |-> BindingData_new(h)],
     hand_sources |-> [h \in Hands |-> NoHandSource],
     load_context |-> NoLoadContext,
     hand_tracker |-> [h \in Hands |-> FALSE],
     raw |-> [h \in Hands |-> 0],
     raw_created |-> [h \in Hands |-> 0],
     aim_valid |-> [h \in Hands |-> FALSE],
     devices |-> TrackedDeviceList_default,
     suggested_profile |-> [h \in Hands |-> "none"],
     current_profile |-> [h \in Hands |-> "none"],
     profile_event |-> FALSE,
     frames |-> 0]

get_loaded_actions(data) == data.loaded_actions.is_set

get_legacy_actions(data) == data.legacy_actions

is_real_session(data) == data.real

\* An InputEvent: its type, the device and the button it is about; `packet`
\* records the packet number of the sync during which it was queued.
InputEvent(ty, index, button, packet) ==
    [ty |-> ty, index |-> index, button |-> button, packet |-> packet]

\* The VREvent_t an empty poll leaves behind.
NoEvent == InputEvent("None", 0, "none", 0)

Threads == {"app", "frame"}

\* What a tracked-device property getter hands back: the error it stored
\* through the error pointer, the number it returned (for a string, the
\* length; for a float, the value in thousandths) and, for a string, the
\* text it copied into the buffer.
PropResult(error, value, text) == [error |-> error, value |-> value, text |-> text]

\* No text: nothing was copied.
NoText == <<>>

NoProp == PropResult("none", 0, NoText)

\* A thread holds the session read guard while it is inside one of these.
HoldsSessionRead(t) ==
    pc[t] \in {"fsu_setup", "fsu_store", "raw_left", "raw_right",
              "glcs_data_hmd", "glcs_data_left", "glcs_hand", "lh_data", "read_queued"}

\* What a call returned: the error code or boolean, the handle, device
\* index, hand or origin the call was about, the data it wrote, the
\* vibrations it applied (haptic action and hand) and the
\* EVRSkeletalTrackingLevel it wrote.
NoRet ==
    [op |-> "none", name |-> <<>>, handle |-> InvalidHandle, index |-> 0,
     hand |-> "none", origin |-> "none", err |-> "None", ok |-> FALSE,
     data |-> NoData, pose |-> NoPose, event |-> NoEvent,
     analog |-> NoAnalog, state |-> NoControllerState, prop |-> NoProp,
     haptic |-> {}, level |-> "none"]

Ret(op, name, handle, err, ok) ==
    [NoRet EXCEPT !.op = op, !.name = name, !.handle = handle, !.err = err, !.ok = ok]

RetIndex(op, index, ok) ==
    [NoRet EXCEPT !.op = op, !.index = index, !.ok = ok]

RetData(op, handle, hand, err, data) ==
    [NoRet EXCEPT !.op = op, !.handle = handle, !.hand = hand, !.err = err,
                  !.ok = (err = "None"), !.data = data]

RetEvent(op, event, ok) ==
    [NoRet EXCEPT !.op = op, !.index = event.index, !.ok = ok, !.event = event]

RetPose(op, index, origin, pose) ==
    [NoRet EXCEPT !.op = op, !.index = index, !.origin = origin,
                  !.ok = (pose /= NoPose), !.pose = pose]

Idle(t) == pc[t] = "idle" /\ ~panicked

----------------------------------------------------------------------------
(* Manifest loading                                                        *)

RECURSIVE insert_missing(_, _)
\* Every manifest name is lower-cased and keeps the key it already has in
\* the map; a name not yet in the map gets the next key.
insert_missing(map, names) ==
    IF names = <<>> THEN map
    ELSE LET n == to_lowercase(Head(names))
         IN  insert_missing(IF slot_find(map, n) = 0 THEN slot_insert(map, n) ELSE map,
                            Tail(names))

key_indices(map, names) ==
    {slot_find(map, to_lowercase(names[i])) : i \in 1..Len(names)}

\* Input::load_action_manifest on session `data`: creates the manifest's
\* sets and actions, attaches the action sets, fills the session's one-shot
\* slots and remembers the path.  Attaching to a session that already has
\* action sets attached fails, and the result is unwrapped.
load_action_manifest(data) ==
    LET sets == insert_missing(set_map, ManifestSets)
        actions == insert_missing(action_map, ManifestActions)
        attached == [data EXCEPT !.attach_calls = @ + 1]
    IN  /\ set_map' = sets
        /\ action_map' = actions
        /\ IF data.attach_calls > 0 \/ get_loaded_actions(data)
           THEN /\ panicked' = TRUE
                /\ session_data' = attached
                /\ UNCHANGED loaded_actions_path
           ELSE /\ panicked' = panicked
                /\ session_data' =
                       [attached EXCEPT
                           !.loaded_actions =
                               [is_set |-> TRUE,
                                sets |-> key_indices(sets, ManifestSets),
                                actions |-> key_indices(actions, ManifestActions)],
                           !.legacy_actions = TRUE]
                /\ loaded_actions_path' = ManifestPath

\* A replay hook that forgets the stored path.
post_session_restart_forgets(data) ==
    /\ session_data' = data
    /\ UNCHANGED <<set_map, action_map, loaded_actions_path, panicked>>

\* Input::post_session_restart, called with the fresh session while the
\* write lock is held.
post_session_restart(data) ==
    IF loaded_actions_path /= NoPath
    THEN load_action_manifest(data)
    ELSE /\ session_data' = data
         /\ UNCHANGED <<set_map, action_map, loaded_actions_path, panicked>>

\* OpenXrData::restart_session: takes the session write lock, replaces the
\* session by a fresh real one, whose device list has nothing cached, and
\* runs the post-restart hook.
restart_session(t) ==
    /\ \A u \in Threads \ {t} : ~HoldsSessionRead(u)
    /\ post_session_restart(SessionData(TRUE))
    /\ devices' = [d \in Devices |-> TrackedDevice_new(d)]
    /\ restarted_in_frame' = TRUE

----------------------------------------------------------------------------
(* Operations                                                              *)

\* The application restarts the session (e.g. the compositor got its
\* graphics binding).
RestartSession ==
    /\ Idle("app")
    /\ restart_session("app")
    /\ ret' = RetIndex("restart_session", 0, TRUE)
    /\ UNCHANGED <<input_source_map, pc, remembered, legacy_vars>>
    /\ UNCHANGED <<bind_vars, world>>

\* IVRInput::SetActionManifestPath, first step: look at the legacy slot.
SetActionManifestPath_begin ==
    /\ Idle("app")
    /\ loaded_actions_path = NoPath
    /\ pc' = [pc EXCEPT !["app"] =
                 IF get_legacy_actions(session_data) THEN "samp_restart" ELSE "samp_load"]
    /\ UNCHANGED <<input_source_map, action_map, set_map, loaded_actions_path,
                   session_data, panicked, ret, remembered, legacy_vars>>
    /\ UNCHANGED <<bind_vars, pose_vars>>

\* SetActionManifestPath: the guard was dropped, restart the session.
SetActionManifestPath_restart ==
    /\ pc["app"] = "samp_restart" /\ ~panicked
    /\ restart_session("app")
    /\ pc' = [pc EXCEPT !["app"] = "samp_load"]
    /\ UNCHANGED <<input_source_map, ret, remembered, legacy_vars>>
    /\ UNCHANGED <<bind_vars, world>>

\* SetActionManifestPath: take the session guard again and load.
SetActionManifestPath_load ==
    /\ pc["app"] = "samp_load" /\ ~panicked
    /\ load_action_manifest(session_data)
    /\ pc' = [pc EXCEPT !["app"] = "idle"]
    /\ ret' = RetIndex("SetActionManifestPath", 0, ~panicked')
    /\ UNCHANGED <<input_source_map, remembered, legacy_vars>>
    /\ UNCHANGED <<bind_vars, pose_vars>>

\* xrSyncActions on the session with only the legacy set active.
sync_session(data) ==
    sync_profiles([data EXCEPT !.action_state = sync_actions(@, xr_input)])

\* BindingData::unsync
unsync(self) == [self EXCEPT !.last_state = Unsynced]

\* data.session.sync_actions(&sync_sets) with the manifest's sets and the
\* legacy set active, as UpdateActionState calls it.
session_sync_actions(data) ==
    sync_profiles([data EXCEPT
        !.action_state = sync_actions(@, xr_input),
        !.bind_state = sync_bind_state(@, bind_input),
        !.hand_sources = [h \in Hands |->
            [@[h] EXCEPT !.bind_state = sync_bind_state(@, data.hand_sources[h].input)]]])

\* The sync of an UpdateActionState that owns the evaluators of
\* custom_bindings.rs: every binding's memo of the period that ends is
\* dropped (BindingData::unsync), then the sets are synced.
sync_action_sets(data) ==
    session_sync_actions([data EXCEPT
        !.bindings = unsync(@),
        !.hand_bindings = [h \in Hands |-> unsync(@[h])]])

\* Calls whose result is action data or a pose.
ActionReads == {"GetDigitalActionData", "BindingData_state"}
PoseReads == {"GetDeviceToAbsoluteTrackingPose", "get_controller_pose", "get_device_pose"}

\* A frame_start_update that creates the legacy actions on whatever session
\* is current.
frame_start_update_begin_any_session(t) ==
    /\ Idle(t)
    /\ IF get_loaded_actions(session_data)
       THEN UNCHANGED <<session_data, legacy_state, pc>>
       ELSE IF get_legacy_actions(session_data)
       THEN /\ legacy_state.packet_num < MaxPacketNum
            /\ session_data' = sync_session(session_data)
            /\ legacy_state' = on_action_sync(legacy_state)
            /\ UNCHANGED pc
       ELSE /\ pc' = [pc EXCEPT ![t] = "fsu_setup"]
            /\ UNCHANGED <<session_data, legacy_state>>
    /\ ret' = IF pc'[t] = "idle"
              THEN RetIndex("frame_start_update", 0, TRUE)
              ELSE ret
    /\ devices' = [d \in Devices |-> clear_pose_cache(devices[d])]
    /\ restarted_in_frame' = FALSE
    /\ remembered' = IF remembered.op \in PoseReads THEN NoRet ELSE remembered
    /\ UNCHANGED <<handle_vars, loaded_actions_path, panicked, xr_input, events>>
    /\ UNCHANGED <<bind_vars, world>>

\* A frame_start_update that, with a manifest loaded, syncs an always-on
\* set of its own.
frame_start_update_begin_syncs_info_set(t) ==
    /\ Idle(t)
    /\ IF get_loaded_actions(session_data)
       THEN /\ session_data' = sync_profiles(session_data)
            /\ UNCHANGED <<legacy_state, pc>>
       ELSE IF get_legacy_actions(session_data)
       THEN /\ legacy_state.packet_num < MaxPacketNum
            /\ session_data' = sync_session(session_data)
            /\ legacy_state' = on_action_sync(legacy_state)
            /\ UNCHANGED pc
       ELSE IF ~is_real_session(session_data)
       THEN UNCHANGED <<session_data, legacy_state, pc>>
       ELSE /\ pc' = [pc EXCEPT ![t] = "fsu_setup"]
            /\ UNCHANGED <<session_data, legacy_state>>
    /\ ret' = IF pc'[t] = "idle"
              THEN RetIndex("frame_start_update", 0, TRUE)
              ELSE ret
    /\ devices' = [d \in Devices |-> clear_pose_cache(devices[d])]
    /\ restarted_in_frame' = FALSE
    /\ remembered' = IF remembered.op \in PoseReads THEN NoRet ELSE remembered
    /\ UNCHANGED <<handle_vars, loaded_actions_path, panicked, xr_input, events>>
    /\ UNCHANGED <<bind_vars, world>>

\* Input::frame_start_update, up to the point where it either returns or
\* decides to create the legacy actions.  `t` is the calling thread; the
\* session read guard taken here is held until the call returns.  The new
\* frame drops every device's cached pose (TrackedDevice::clear_pose_cache)
\* and, with it, the frame the application's kept pose belongs to.
frame_start_update_begin(t) ==
    /\ Idle(t)
    /\ IF get_loaded_actions(session_data)
       THEN UNCHANGED <<session_data, legacy_state, pc>>
       ELSE IF get_legacy_actions(session_data)
       THEN /\ legacy_state.packet_num < MaxPacketNum
            /\ session_data' = sync_session(session_data)
            /\ legacy_state' = on_action_sync(legacy_state)
            /\ UNCHANGED pc
       ELSE IF ~is_real_session(session_data)
       THEN UNCHANGED <<session_data, legacy_state, pc>>
       ELSE /\ pc' = [pc EXCEPT ![t] = "fsu_setup"]
            /\ UNCHANGED <<session_data, legacy_state>>
    /\ ret' = IF pc'[t] = "idle"
              THEN RetIndex("frame_start_update", 0, TRUE)
              ELSE ret
    /\ devices' = [d \in Devices |-> clear_pose_cache(devices[d])]
    /\ restarted_in_frame' = FALSE
    /\ remembered' = IF remembered.op \in PoseReads THEN NoRet ELSE remembered
    /\ UNCHANGED <<handle_vars, loaded_actions_path, panicked, xr_input, events>>
    /\ UNCHANGED <<bind_vars, world>>

\* frame_start_update: LegacyActions::new and setup_legacy_bindings, which
\* attaches the legacy set (unwrapping the result) and syncs once.
frame_start_update_setup(t) ==
    /\ pc[t] = "fsu_setup" /\ ~panicked
    /\ IF session_data.attach_calls > 0
       THEN /\ panicked' = TRUE
            /\ session_data' = [session_data EXCEPT !.attach_calls = @ + 1]
            /\ UNCHANGED pc
       ELSE /\ session_data' =
                   sync_session([session_data EXCEPT !.attach_calls = @ + 1])
            /\ pc' = [pc EXCEPT ![t] = "fsu_store"]
            /\ UNCHANGED panicked
    /\ UNCHANGED <<handle_vars, loaded_actions_path, ret, remembered, legacy_vars>>
    /\ UNCHANGED <<bind_vars, pose_vars>>

\* frame_start_update: legacy_actions.set(legacy), unreachable!() when the
\* slot is already full.
frame_start_update_store(t) ==
    /\ pc[t] = "fsu_store" /\ ~panicked
    /\ IF get_legacy_actions(session_data)
       THEN /\ panicked' = TRUE
            /\ UNCHANGED <<session_data, pc, ret>>
       ELSE /\ session_data' = [session_data EXCEPT !.legacy_actions = TRUE]
            /\ pc' = [pc EXCEPT ![t] = "idle"]
            /\ ret' = RetIndex("frame_start_update", 0, TRUE)
            /\ UNCHANGED panicked
    /\ UNCHANGED <<handle_vars, loaded_actions_path, remembered, legacy_vars>>
    /\ UNCHANGED <<bind_vars, pose_vars>>

\* A getter that looks names up as the application spelled them.
name_key_as_spelled(name) == name

\* GetActionHandle and GetActionSetHandle look names up lower-cased.
name_key(name) == to_lowercase(name)

\* Handle of `name` in `map` after a find-or-insert.
handle_after(map, name) == as_ffi(KeyAt(slot_find(map, name)))

find_or_insert(map, name) ==
    IF slot_find(map, name) = 0 THEN slot_insert(map, name) ELSE map

\* IVRInput::GetInputSourceHandle
GetInputSourceHandle(path) ==
    /\ Idle("app")
    /\ input_source_map' = find_or_insert(input_source_map, path)
    /\ ret' = Ret("GetInputSourceHandle", path,
                  handle_after(input_source_map', path), "None", TRUE)
    /\ UNCHANGED <<action_map, set_map, loaded_actions_path, session_data,
                   panicked, pc, remembered, legacy_vars>>
    /\ UNCHANGED <<bind_vars, pose_vars>>

\* IVRInput::GetActionHandle
GetActionHandle(action_name) ==
    /\ Idle("app")
    /\ action_map' = find_or_insert(action_map, name_key(action_name))
    /\ ret' = Ret("GetActionHandle", action_name,
                  handle_after(action_map', name_key(action_name)), "None", TRUE)
    /\ UNCHANGED <<input_source_map, set_map, loaded_actions_path, session_data,
                   panicked, pc, remembered, legacy_vars>>
    /\ UNCHANGED <<bind_vars, pose_vars>>

\* IVRInput::GetActionSetHandle
GetActionSetHandle(action_set_name) ==
    /\ Idle("app")
    /\ set_map' = find_or_insert(set_map, name_key(action_set_name))
    /\ ret' = Ret("GetActionSetHandle", action_set_name,
                  handle_after(set_map', name_key(action_set_name)), "None", TRUE)
    /\ UNCHANGED <<input_source_map, action_map, loaded_actions_path, session_data,
                   panicked, pc, remembered, legacy_vars>>
    /\ UNCHANGED <<bind_vars, pose_vars>>

\* The application keeps the handle it was just given.
Remember ==
    /\ Idle("app")
    /\ ret.op \in {"GetInputSourceHandle", "GetActionHandle", "GetActionSetHandle"}
    /\ remembered /= ret
    /\ remembered' = ret
    /\ UNCHANGED <<handle_vars, loaded_actions_path, session_data, panicked, pc,
                   ret, legacy_vars>>
    /\ UNCHANGED <<bind_vars, pose_vars>>

----------------------------------------------------------------------------
(* Handle lookups                                                          *)

\* Handle values an application passes back in: the values the maps hand
\* out, the invalid handle 0, and values no map ever handed out.
HandleProbes ==
    {as_ffi(KeyAt(i)) : i \in 1..2} \cup {InvalidHandle, U64(0, 1), U64(2, 1)}

\* LoadedActions::try_get_action
try_get_action(loaded, handle) ==
    IF slot_contains(loaded.actions, from_ffi(handle)) THEN "None" ELSE "InvalidHandle"

\* Error of the get_action_from_handle! prologue shared by the action readers.
get_action_from_handle(data, handle) ==
    IF ~get_loaded_actions(data) THEN "InvalidHandle"
    ELSE try_get_action(data.loaded_actions, handle)

\* Name of the live object a key designates in a map, <<>> if none.
resolved(map, key) ==
    IF slot_contains(1..Len(map), key) THEN map[key.idx] ELSE <<>>

\* IVRInput::GetOriginTrackedDeviceInfo: an input source handle is looked up.
GetOriginTrackedDeviceInfo(handle) ==
    /\ Idle("app")
    /\ LET key == from_ffi(handle)
           found == slot_contains(1..Len(input_source_map), key)
       IN  ret' = Ret("GetOriginTrackedDeviceInfo", resolved(input_source_map, key),
                      handle, IF found THEN "None" ELSE "InvalidHandle", found)
    /\ UNCHANGED <<handle_vars, loaded_actions_path, session_data, panicked, pc,
                   remembered, legacy_vars>>
    /\ UNCHANGED <<bind_vars, pose_vars>>

----------------------------------------------------------------------------
(* Boolean action data (input.rs)                                          *)

GRAB_THRESHOLD == 100
RELEASE_THRESHOLD == 350

\* An xr::ActionState<bool> of an action nothing is bound to.
Inactive == ActionState(FALSE, FALSE, FALSE)

\* Result of a binding evaluator: Option<xr::ActionState<bool>> and the
\* latch it leaves behind.
Evaluated(some, state, last_state) ==
    [some |-> some, state |-> state, last_state |-> last_state]

\* xr::Action::state for a subaction path: the bound input source sits on
\* the left hand, so the right hand sees an inactive action.
xr_state(snapshot, subaction_path) ==
    IF subaction_path = "right" THEN NoBindState ELSE snapshot

\* Input::subaction_path_from_handle: 0 is xr::Path::NULL, a handle of the
\* map gives its path, any other value gives nothing.
subaction_path_from_handle(handle) ==
    IF handle = InvalidHandle THEN "null"
    ELSE LET name == resolved(input_source_map, from_ffi(handle))
         IN  IF name = LeftHandPath THEN "left"
             ELSE IF name = RightHandPath THEN "right"
             ELSE IF name = <<>> THEN "missing"
             ELSE "other"

\* DpadData::state of the action data: the parent and the click are read
\* with xr::Path::NULL; the latch follows in_bounds on every call.
input_DpadData_state(last_state, snapshot) ==
    LET in == snapshot.input
        active == ~in.active \/ in.click
    IN  IF ~active
        THEN Evaluated(FALSE, Inactive, last_state)
        ELSE Evaluated(TRUE,
                       ActionState(in.active, in.in_bounds, last_state /= in.in_bounds),
                       in.in_bounds)

\* GrabBindingData::grabbed: one latch per hand; the NULL path reads and
\* writes both.
GrabBindingData_grabbed(last_state, snapshot, subaction_path) ==
    LET in == snapshot.input
        s == IF subaction_path = "null"
             THEN last_state["left"] \/ last_state["right"]
             ELSE last_state[subaction_path]
        grabbed == \/ ~s /\ in.force >= GRAB_THRESHOLD
                   \/ s /\ in.value > RELEASE_THRESHOLD
        touched == IF subaction_path = "null" THEN Hands ELSE {subaction_path}
        changed == \E h \in touched : last_state[h] = ~grabbed
    IN  IF ~in.active
        THEN Evaluated(FALSE, Inactive, last_state)
        ELSE Evaluated(TRUE, ActionState(TRUE, grabbed, changed),
                       [h \in Hands |-> IF h \in touched THEN grabbed ELSE last_state[h]])

\* self.action.state of a boolean action: the click for an action bound to
\* nothing else, the boolean input for one that also has dpad and grab data.
bool_action_state(kind, scoped) ==
    IF kind = "direct"
    THEN ActionState(scoped.input.active, scoped.input.active /\ scoped.input.click,
                     scoped.click_changed)
    ELSE IF kind \in MixedKinds
    THEN ActionState(scoped.input.native_bound, scoped.input.native,
                     scoped.native_changed)
    ELSE Inactive

\* BoolActionData::state: the action itself, then the dpad data, then the
\* grab data.  Gives the state and the bindings with their latches updated.
BoolActionData_state(bindings, kind, snapshot, subaction_path) ==
    LET scoped == xr_state(snapshot, subaction_path)
        state == bool_action_state(kind, scoped)
        has_dpad == kind \in {"dpad_data"} \cup MixedKinds
        has_grab == kind \in {"grab_data"} \cup MixedKinds
        dpad == input_DpadData_state(bindings.dpad_last_state, snapshot)
        after_dpad == IF has_dpad
                      THEN [bindings EXCEPT !.dpad_last_state = dpad.last_state]
                      ELSE bindings
        dpad_state == IF has_dpad /\ dpad.some THEN dpad.state ELSE state
        grab == GrabBindingData_grabbed(after_dpad.grab_last_state, scoped,
                                        subaction_path)
        after_grab == [after_dpad EXCEPT !.grab_last_state = grab.last_state]
    IN  IF state.is_active /\ state.current_state
        THEN [state |-> state, bindings |-> bindings]
        ELSE IF has_dpad /\ dpad.some /\ dpad.state.current_state
        THEN [state |-> dpad.state, bindings |-> after_dpad]
        ELSE IF has_grab /\ grab.some
        THEN [state |-> grab.state, bindings |-> after_grab]
        ELSE [state |-> dpad_state, bindings |-> after_dpad]

\* InputDigitalActionData_t written from an action state.
DigitalData(state) ==
    [active |-> state.is_active, state |-> state.current_state,
     changed |-> state.changed_since_last_sync]

\* The manifest's first action is a boolean, its second one a vector1.
is_bool_action(handle) ==
    resolved(action_map, from_ffi(handle)) = to_lowercase(ManifestActions[1])

\* IVRInput::GetDigitalActionData
GetDigitalActionData(handle, restrict_to_device) ==
    /\ Idle("app")
    /\ subaction_path_from_handle(restrict_to_device) /= "other"
    /\ \E prior \in PriorData :
       LET subaction_path == subaction_path_from_handle(restrict_to_device)
           err == IF ~get_loaded_actions(session_data) THEN "InvalidHandle"
                  ELSE IF subaction_path = "missing" THEN "None"
                  ELSE IF try_get_action(session_data.loaded_actions, handle) /= "None"
                  THEN "InvalidHandle"
                  ELSE IF ~is_bool_action(handle) THEN "WrongType"
                  ELSE "None"
           reads == err = "None" /\ subaction_path \in Hands \cup {"null"}
           read == BoolActionData_state(session_data.bindings, binding_kind,
                                        session_data.bind_state, subaction_path)
       IN  /\ ret' = [RetData("GetDigitalActionData", handle,
                              subaction_path, err,
                              IF reads THEN DigitalData(read.state)
                              ELSE IF err = "None" THEN NoData
                              ELSE prior)
                        EXCEPT !.name = IF reads
                                        THEN resolved(action_map, from_ffi(handle))
                                        ELSE <<>>,
                               !.ok = reads]
           /\ session_data' = IF reads
                              THEN [session_data EXCEPT !.bindings = read.bindings]
                              ELSE session_data
    /\ UNCHANGED <<handle_vars, loaded_actions_path, panicked, pc,
                   remembered, legacy_vars>>
    /\ UNCHANGED <<bind_vars, pose_vars>>

\* The manifest's second action, a vector1, is bound to the value of the
\* bound input source.
is_vector1_action(handle) ==
    resolved(action_map, from_ffi(handle)) = to_lowercase(ManifestActions[2])

\* FloatActionData::state
FloatActionData_state(snapshot, subaction_path) ==
    LET scoped == xr_state(snapshot, subaction_path)
    IN  [is_active |-> scoped.input.active,
         current_state |-> IF scoped.input.active THEN scoped.input.value ELSE 0]

\* IVRInput::GetAnalogActionData
GetAnalogActionData(handle, restrict_to_device) ==
    /\ Idle("app")
    /\ subaction_path_from_handle(restrict_to_device) /= "other"
    /\ \E prior \in PriorAnalog :
       LET subaction_path == subaction_path_from_handle(restrict_to_device)
           err == IF get_action_from_handle(session_data, handle) /= "None"
                  THEN "InvalidHandle"
                  ELSE IF subaction_path = "missing" THEN "None"
                  ELSE IF ~is_vector1_action(handle) THEN "WrongType"
                  ELSE "None"
           reads == err = "None" /\ subaction_path \in Hands \cup {"null"}
           state == FloatActionData_state(session_data.bind_state, subaction_path)
           last_value == session_data.bindings.vec1_last_value
       IN  /\ ret' = [NoRet EXCEPT
                        !.op = "GetAnalogActionData", !.handle = handle,
                        !.hand = subaction_path, !.err = err, !.ok = reads,
                        !.name = IF reads THEN resolved(action_map, from_ffi(handle))
                                 ELSE <<>>,
                        !.analog =
                            IF reads
                            THEN AnalogData(state.is_active, state.current_state,
                                            state.current_state - last_value)
                            ELSE IF err = "None" THEN NoAnalog
                            ELSE prior]
           /\ session_data' =
                  IF reads
                  THEN [session_data EXCEPT
                           !.bindings.vec1_last_value = state.current_state]
                  ELSE session_data
    /\ UNCHANGED <<handle_vars, loaded_actions_path, panicked, pc,
                   remembered, legacy_vars>>
    /\ UNCHANGED <<bind_vars, pose_vars>>

\* Error IVRInput::UpdateActionState returns for the active sets it is given.
update_action_state_error(data, active_sets) ==
    IF Len(active_sets) = 0 THEN "NoActiveActionSet"
    ELSE IF ~get_loaded_actions(data) THEN "InvalidParam"
    ELSE IF \E i \in 1..Len(active_sets) :
                ~slot_contains(data.loaded_actions.sets, from_ffi(active_sets[i]))
    THEN "InvalidHandle"
    ELSE "None"

\* IVRInput::UpdateActionState: action set handles are looked up, then the
\* sets are synced together with the legacy set, whose slot is unwrapped.
\* A sync ends the period the application's kept read belongs to.
update_action_state(active_sets, synced) ==
    /\ Idle("app")
    /\ LET err == update_action_state_error(session_data, active_sets)
       IN  /\ IF err /= "None"
              THEN UNCHANGED <<session_data, legacy_state, panicked, remembered,
                               last_period, same_input>>
              ELSE IF ~get_legacy_actions(session_data)
              THEN /\ panicked' = TRUE
                   /\ UNCHANGED <<session_data, legacy_state, remembered,
                                  last_period, same_input>>
              ELSE /\ legacy_state.packet_num < MaxPacketNum
                   /\ session_data' = synced
                   /\ legacy_state' = on_action_sync(legacy_state)
                   /\ last_period' = IF remembered.op \in ActionReads /\ same_input
                                     THEN remembered ELSE NoRet
                   /\ remembered' = IF remembered.op \in ActionReads
                                    THEN NoRet ELSE remembered
                   /\ same_input' = TRUE
                   /\ UNCHANGED panicked
           /\ ret' = Ret("UpdateActionState",
                         IF err = "None"
                         THEN resolved(set_map, from_ffi(active_sets[1])) ELSE <<>>,
                         IF Len(active_sets) = 0 THEN InvalidHandle ELSE active_sets[1],
                         err, err = "None")
    /\ UNCHANGED <<handle_vars, loaded_actions_path, pc, xr_input, events>>
    /\ UNCHANGED <<binding_kind, binding_params, bind_input, pose_vars>>

\* UpdateActionState as input.rs has it: the sets are synced, no evaluator
\* is told.
UpdateActionState_without_unsync(active_sets) ==
    update_action_state(active_sets, session_sync_actions(session_data))

\* UpdateActionState of an Input that owns the evaluators of
\* custom_bindings.rs: their memos are dropped before the sync.
UpdateActionState(active_sets) ==
    update_action_state(active_sets, sync_action_sets(session_data))

\* The user moves the bound input source.
XrBindInput(input) ==
    /\ input /= bind_input
    /\ bind_input' = input
    /\ same_input' = FALSE
    /\ UNCHANGED <<handle_vars, loaded_actions_path, session_data, panicked, pc,
                   ret, remembered, legacy_vars>>
    /\ UNCHANGED <<binding_kind, binding_params, last_period, pose_vars>>

\* The application keeps the action data or the pose it just read.
RememberRead ==
    /\ Idle("app")
    /\ ret.op \in ActionReads \cup PoseReads
    /\ ret.err = "None"
    /\ remembered /= ret
    /\ remembered' = ret
    /\ UNCHANGED <<handle_vars, loaded_actions_path, session_data, panicked, pc,
                   ret, legacy_vars>>
    /\ UNCHANGED <<bind_vars, pose_vars>>

----------------------------------------------------------------------------
(* Custom bindings (input/custom_bindings.rs)                              *)

CENTER_ZONE == 500
DPAD_CLICK_THRESHOLD == 330
DPAD_RELEASE_THRESHOLD == 200
DEFAULT_GRAB_THRESHOLD == 700
GrabBindingData_DEFAULT_RELEASE_THRESHOLD == 650
DEFAULT_CLICK_THRESHOLD == 250
ThresholdBindingData_DEFAULT_RELEASE_THRESHOLD == 200

\* |x|
abs(x) == IF x < 0 THEN -x ELSE x

\* A dpad that leaves the centre zone out of account.
in_bounds_without_center(direction, x, y) ==
    CASE direction = "North" -> y > 0 /\ y >= abs(x)
      [] direction = "East" -> x > 0 /\ x >= abs(y)
      [] direction = "South" -> y < 0 /\ -y >= abs(x)
      [] direction = "West" -> x < 0 /\ -x >= abs(y)
      [] OTHER -> FALSE

\* Wedges that are closed at their clockwise end only.
in_bounds_half_open(direction, x, y) ==
    LET far == x * x + y * y >= CENTER_ZONE * CENTER_ZONE
    IN  CASE direction = "North" -> far /\ y > 0 /\ y >= x /\ y > -x
          [] direction = "East" -> far /\ x > 0 /\ x > y /\ x >= -y
          [] direction = "South" -> far /\ y < 0 /\ -y > x /\ -y >= -x
          [] direction = "West" -> far /\ x < 0 /\ -x >= y /\ -x > -y
          [] OTHER -> ~far

\* DpadData::state, in_bounds: radius = hypot(x, y) against the centre
\* zone, angle = atan2(y, x) against the closed quarter-turn wedge of the
\* direction; the west wedge is the two ranges next to +pi and -pi.
in_bounds(direction, x, y) ==
    LET far == x * x + y * y >= CENTER_ZONE * CENTER_ZONE
    IN  CASE direction = "North" -> far /\ y > 0 /\ y >= abs(x)
          [] direction = "East" -> far /\ x > 0 /\ x >= abs(y)
          [] direction = "South" -> far /\ y < 0 /\ -y >= abs(x)
          [] direction = "West" -> far /\ x < 0 /\ -x >= abs(y)
          [] OTHER -> ~far

\* DpadData::state: the latch picks the activator's threshold and is the
\* in-bounds state the change is computed against.
custom_bindings_DpadData_state(last_state, snapshot) ==
    LET in == snapshot.input
        active_threshold == IF last_state THEN DPAD_RELEASE_THRESHOLD
                            ELSE DPAD_CLICK_THRESHOLD
        active == IF binding_params.click_or_touch
                  THEN ~in.active \/ in.force > active_threshold
                  ELSE TRUE
        bounds == in_bounds(binding_params.direction, in.x, in.y)
    IN  IF ~active
        THEN Evaluated(FALSE, Inactive, FALSE)
        ELSE Evaluated(TRUE,
                       ActionState(in.active, bounds, last_state /= bounds),
                       bounds)

\* GrabBindingData::new
GrabBindingData_new(grab_threshold, release_threshold) ==
    [hold_threshold |-> unwrap_or(grab_threshold, DEFAULT_GRAB_THRESHOLD),
     release_threshold |-> unwrap_or(release_threshold,
                                     GrabBindingData_DEFAULT_RELEASE_THRESHOLD)]

\* A grab that compares against the hold threshold alone.
GrabBindingData_state_without_hysteresis(last_state, snapshot) ==
    LET in == snapshot.input
        self == GrabBindingData_new(binding_params.value_hold_threshold,
                                    binding_params.value_release_threshold)
        value == IF in.force > 0 THEN in.force + 1000 ELSE in.value
        grabbed == value >= self.hold_threshold
    IN  IF ~in.active
        THEN Evaluated(FALSE, Inactive, FALSE)
        ELSE Evaluated(TRUE, ActionState(TRUE, grabbed, grabbed /= last_state), grabbed)

\* A grab that compares the force itself, not the force raised by one.
GrabBindingData_state_plain_force(last_state, snapshot) ==
    LET in == snapshot.input
        self == GrabBindingData_new(binding_params.value_hold_threshold,
                                    binding_params.value_release_threshold)
        value == IF in.force > 0 THEN in.force ELSE in.value
        grabbed == \/ last_state /\ value > self.release_threshold
                   \/ ~last_state /\ value >= self.hold_threshold
    IN  IF ~in.active
        THEN Evaluated(FALSE, Inactive, FALSE)
        ELSE Evaluated(TRUE, ActionState(TRUE, grabbed, grabbed /= last_state), grabbed)

\* GrabBindingData::state.  A force above zero counts as a value above one.
GrabBindingData_state(last_state, snapshot) ==
    LET in == snapshot.input
        self == GrabBindingData_new(binding_params.value_hold_threshold,
                                    binding_params.value_release_threshold)
        value == IF in.force > 0 THEN in.force + 1000 ELSE in.value
        grabbed == \/ last_state /\ value > self.release_threshold
                   \/ ~last_state /\ value >= self.hold_threshold
    IN  IF ~in.active
        THEN Evaluated(FALSE, Inactive, FALSE)
        ELSE Evaluated(TRUE, ActionState(TRUE, grabbed, grabbed /= last_state), grabbed)

\* A toggle that follows every change of its source.
ToggleData_state_on_any_change(last_state, snapshot) ==
    LET in == snapshot.input
        current_state == IF snapshot.click_changed THEN ~last_state ELSE last_state
    IN  IF ~in.active
        THEN Evaluated(FALSE, Inactive, last_state)
        ELSE Evaluated(TRUE,
                       ActionState(TRUE, current_state, last_state /= current_state),
                       current_state)

\* ToggleData::state: a fresh press flips the latch.
ToggleData_state(last_state, snapshot) ==
    LET in == snapshot.input
        current_state == IF snapshot.click_changed /\ in.click
                         THEN ~last_state ELSE last_state
    IN  IF ~in.active
        THEN Evaluated(FALSE, Inactive, last_state)
        ELSE Evaluated(TRUE,
                       ActionState(TRUE, current_state, last_state /= current_state),
                       current_state)

\* ThresholdBindingData::new
ThresholdBindingData_new(click_threshold, release_threshold) ==
    [click_threshold |-> unwrap_or(click_threshold, DEFAULT_CLICK_THRESHOLD),
     release_threshold |-> unwrap_or(release_threshold,
                                     ThresholdBindingData_DEFAULT_RELEASE_THRESHOLD)]

\* A threshold that releases where it clicks.
ThresholdBindingData_state_without_hysteresis(last_state, snapshot) ==
    LET in == snapshot.input
        self == ThresholdBindingData_new(binding_params.click_activate_threshold,
                                         binding_params.click_deactivate_threshold)
        current_state == in.value >= self.click_threshold
    IN  IF ~in.active
        THEN Evaluated(FALSE, Inactive, last_state)
        ELSE Evaluated(TRUE,
                       ActionState(TRUE, current_state, last_state /= current_state),
                       current_state)

\* ThresholdBindingData::state
ThresholdBindingData_state(last_state, snapshot) ==
    LET in == snapshot.input
        self == ThresholdBindingData_new(binding_params.click_activate_threshold,
                                         binding_params.click_deactivate_threshold)
        threshold == IF last_state THEN self.release_threshold
                     ELSE self.click_threshold
        current_state == in.value >= threshold
    IN  IF ~in.active
        THEN Evaluated(FALSE, Inactive, last_state)
        ELSE Evaluated(TRUE,
                       ActionState(TRUE, current_state, last_state /= current_state),
                       current_state)

\* The binding's evaluator, by BindingType.
BindingType_state(kind, last_state, snapshot) ==
    CASE kind = "Dpad" -> custom_bindings_DpadData_state(last_state, snapshot)
      [] kind = "Toggle" -> ToggleData_state(last_state, snapshot)
      [] kind = "Grab" -> GrabBindingData_state(last_state, snapshot)
      [] OTHER -> ThresholdBindingData_state(last_state, snapshot)

\* The hand the binding file binds the input on.
BindingHand == "left"

\* BindingData::state for a hand, never xr::Path::NULL: nothing for the
\* other hand; the memo when the binding was read since the last sync;
\* else the evaluator's result, which becomes the memo.
BindingData_state(subaction_path) ==
    /\ Idle("app")
    /\ get_loaded_actions(session_data)
    /\ binding_kind \in {"Dpad", "Grab", "Toggle", "Threshold"}
    /\ LET b == session_data.bindings
           fresh == BindingType_state(binding_kind, b.ty_last_state,
                                      xr_state(session_data.bind_state, subaction_path))
           result == IF subaction_path /= BindingHand THEN SyncedNone
                     ELSE IF b.last_state.synced THEN b.last_state
                     ELSE Synced(fresh.some, fresh.state)
       IN  /\ ret' = [RetData("BindingData_state", InvalidHandle, subaction_path, "None",
                              IF result.some THEN DigitalData(result.state) ELSE NoData)
                        EXCEPT !.ok = result.some]
           /\ session_data' =
                  IF subaction_path /= BindingHand \/ b.last_state.synced
                  THEN session_data
                  ELSE [session_data EXCEPT !.bindings.ty_last_state = fresh.last_state,
                                            !.bindings.ty_active =
                                                IF binding_kind = "Dpad" THEN fresh.some ELSE @,
                                            !.bindings.ty_activator_bound =
                                                IF binding_kind = "Dpad"
                                                THEN session_data.bind_state.input.active
                                                ELSE @,
                                            !.bindings.last_state = result]
    /\ UNCHANGED <<handle_vars, loaded_actions_path, panicked, pc,
                   remembered, legacy_vars>>
    /\ UNCHANGED <<bind_vars, pose_vars>>

----------------------------------------------------------------------------
(* Legacy controller state                                                 *)

\* A state getter that does not look at the loaded manifest actions.
legacy_result_ignoring_manifest(data, device_index, size_matches) ==
    /\ size_matches
    /\ get_legacy_actions(data)
    /\ device_index_to_hand(device_index) /= "none"

\* Return value of Input::get_legacy_controller_state.
legacy_result(data, device_index, size_matches) ==
    /\ size_matches
    /\ ~get_loaded_actions(data)
    /\ get_legacy_actions(data)
    /\ device_index_to_hand(device_index) /= "none"

\* No touch action is bound to the button (touch_action = None).
NoTouch == [current_state |-> FALSE, changed_since_last_sync |-> FALSE]

\* The events the read_button closure queues for one button id: a touch or
\* untouch when the touch action changed, then a press or unpress when the
\* click action changed.
read_button(device_index, id, click_state, touch_state, packet) ==
    (IF touch_state.changed_since_last_sync
     THEN <<InputEvent(IF touch_state.current_state THEN "ButtonTouch" ELSE "ButtonUntouch",
                       device_index, id, packet)>>
     ELSE <<>>)
    \o
    (IF click_state.changed_since_last_sync
     THEN <<InputEvent(IF click_state.current_state THEN "ButtonPress" ELSE "ButtonUnpress",
                       device_index, id, packet)>>
     ELSE <<>>)

\* The events of one read, in the order of the read_button calls.
button_events(device_index, actions, packet) ==
    read_button(device_index, "Axis0", actions["main_xy_click"], actions["main_xy_touch"], packet)
    \o read_button(device_index, "SteamVR_Trigger", actions["trigger_click"], NoTouch, packet)

\* The VRControllerState_t a successful read fills in: the packet number
\* and the bits read_button sets for the buttons that are pressed and
\* touched.
read_controller_state(packet_num, actions) ==
    ControllerState(
        packet_num,
        {id \in {"Axis0"} : actions["main_xy_click"].current_state}
            \cup {id \in {"SteamVR_Trigger"} : actions["trigger_click"].current_state},
        {id \in {"Axis0"} : actions["main_xy_touch"].current_state})

\* Input::get_legacy_controller_state.  Past the size check the state is
\* built in a WriteOnDrop, which starts as the default and is written to
\* the application's structure on every return.
get_legacy_controller_state(device_index, size_matches) ==
    /\ Idle("app")
    /\ Len(events) < MaxEvents
    /\ \E prior \in PriorControllerState :
       LET ok == legacy_result(session_data, device_index, size_matches)
           hand == device_index_to_hand(device_index)
       IN  /\ ret' = [RetIndex("get_legacy_controller_state", device_index, ok)
                        EXCEPT !.state =
                            IF ~size_matches THEN prior
                            ELSE IF ok
                            THEN read_controller_state(legacy_state.packet_num,
                                                       session_data.action_state[hand])
                            ELSE NoControllerState]
           /\ IF ok
              THEN LET first == ~legacy_state.got_state_this_frame[hand]
                       actions == session_data.action_state[hand]
                   IN  /\ legacy_state' =
                              [legacy_state EXCEPT !.got_state_this_frame[hand] = TRUE]
                       /\ events' =
                              IF first
                              THEN events \o button_events(device_index, actions,
                                                           legacy_state.packet_num)
                              ELSE events
              ELSE UNCHANGED <<legacy_state, events>>
    /\ UNCHANGED <<handle_vars, loaded_actions_path, session_data, panicked, pc,
                   remembered, xr_input>>
    /\ UNCHANGED <<bind_vars, pose_vars>>

\* A queue that hands out its newest event first.
get_next_event_newest(queue) ==
    IF queue = <<>> THEN [ok |-> FALSE, event |-> NoEvent, rest |-> queue]
    ELSE [ok |-> TRUE, event |-> queue[Len(queue)],
          rest |-> SubSeq(queue, 1, Len(queue) - 1)]

\* Input::get_next_event: pops the head of the queue, if there is one.
get_next_event(queue) ==
    IF queue = <<>> THEN [ok |-> FALSE, event |-> NoEvent, rest |-> queue]
    ELSE [ok |-> TRUE, event |-> Head(queue), rest |-> Tail(queue)]

\* IVRSystem::PollNextEvent: the oldest queued input event, if any.
PollNextEvent ==
    /\ Idle("app")
    /\ LET got == get_next_event(events)
       IN  /\ ret' = RetEvent("PollNextEvent", got.event, got.ok)
           /\ events' = got.rest
    /\ UNCHANGED <<handle_vars, loaded_actions_path, session_data, panicked, pc,
                   remembered, legacy_state, xr_input>>
    /\ UNCHANGED <<bind_vars, pose_vars>>

\* The user changes what one boolean input of one controller reports.
XrLegacyInput(hand, action) ==
    /\ xr_input' = [xr_input EXCEPT ![hand][action] = ~@]
    /\ UNCHANGED <<handle_vars, loaded_actions_path, session_data, panicked, pc,
                   ret, remembered, legacy_state, events>>
    /\ UNCHANGED <<bind_vars, pose_vars>>

\* The user presses or releases the trigger of one controller.
XrInput(hand) ==
    /\ xr_input' = [xr_input EXCEPT ![hand]["trigger_click"] = ~@]
    /\ UNCHANGED <<handle_vars, loaded_actions_path, session_data, panicked, pc,
                   ret, remembered, legacy_state, events>>
    /\ UNCHANGED <<bind_vars, pose_vars>>

----------------------------------------------------------------------------
(* Specifications                                                          *)

\* Input::new with the session `data`.
Input_new(data, last_ret) ==
    /\ input_source_map = <<LeftHandPath, RightHandPath>>
    /\ action_map = <<>>
    /\ set_map = <<>>
    /\ loaded_actions_path = NoPath
    /\ session_data = data
    /\ panicked = FALSE
    /\ pc = [t \in Threads |-> "idle"]
    /\ ret = last_ret
    /\ remembered = NoRet
    /\ legacy_state = [packet_num |-> 0, got_state_this_frame |-> [h \in Hands |-> FALSE]]
    /\ xr_input = [h \in Hands |-> [a \in LegacyBooleans |-> FALSE]]
    /\ events = <<>>
    /\ bind_input = NoBindInput
    /\ last_period = NoRet
    /\ same_input = FALSE
    /\ devices = [d \in Devices |-> TrackedDevice_new(d)]
    /\ restarted_in_frame = FALSE
    /\ world = "here"

\* The binding kind and its parameters are facts about the files on disk.
InitWith(kinds, data, last_ret) ==
    /\ Input_new(data, last_ret)
    /\ binding_kind \in kinds
    /\ binding_params = NoParams

\* A process whose session is not real yet.
Init == InitWith({"direct"}, SessionData(FALSE), NoRet)

\* The session life cycle as one application thread drives it.
SessionStep ==
    \/ RestartSession
    \/ SetActionManifestPath_begin
    \/ SetActionManifestPath_restart
    \/ SetActionManifestPath_load
    \/ frame_start_update_begin("app")
    \/ frame_start_update_setup("app")
    \/ frame_start_update_store("app")

\* Legacy input on top of the session life cycle.
Next ==
    \/ SessionStep
    \/ \E sets \in {<<>>} \cup {<<h>> : h \in HandleProbes} : UpdateActionState(sets)
    \/ \E d \in DeviceIndices, m \in BOOLEAN : get_legacy_controller_state(d, m)
    \/ PollNextEvent
    \/ \E h \in Hands : XrInput(h)

Spec == Init /\ [][Next]_vars

----------------------------------------------------------------------------
(* Claims about the legacy path                                            *)

\* C1: once the current session holds loaded manifest actions, every call
\* of get_legacy_controller_state returns false, for every device index and
\* whatever frame updates, syncs and event polls came in between.
C1_NoLegacyStateWithManifest ==
    (ret.op = "get_legacy_controller_state" /\ get_loaded_actions(session_data))
        => ~ret.ok

\* C1 witness: a controller's state was asked for with a well-sized buffer
\* in a session that holds the loaded manifest actions and was synced at
\* least twice, and the call returned false.
C1_Witness ==
    /\ ret.op = "get_legacy_controller_state"
    /\ ret.index = 1
    /\ ~ret.ok
    /\ get_loaded_actions(session_data)
    /\ get_legacy_actions(session_data)
    /\ legacy_state.packet_num >= 2

----------------------------------------------------------------------------
(* Handles                                                                 *)

\* The handle API on top of the session life cycle.
NextHandles ==
    \/ SessionStep
    \/ \E n \in SourceNames : GetInputSourceHandle(n)
    \/ \E n \in ActionNames : GetActionHandle(n)
    \/ \E n \in SetNames : GetActionSetHandle(n)
    \/ Remember
    \/ \E h \in HandleProbes : GetOriginTrackedDeviceInfo(h)
    \/ \E h \in HandleProbes : GetDigitalActionData(h, InvalidHandle)
    \/ \E sets \in {<<>>} \cup {<<h>> : h \in HandleProbes} : UpdateActionState(sets)

SpecHandles == Init /\ [][NextHandles]_vars

\* Handle values a map has handed out so far.
issued(map) == {as_ffi(KeyAt(i)) : i \in 1..Len(map)}

\* Handle of the manifest action or set `name` in `map`.
manifest_handle(map, name) == handle_after(map, to_lowercase(name))

\* C3: once the manifest path is stored, every session the application
\* finds itself in -- the one SetActionManifestPath restarted into and every
\* session a later restart creates -- has had its action sets attached
\* exactly once and holds the manifest's actions and sets under the handles
\* GetActionHandle and GetActionSetHandle return, including a handle the
\* application obtained before.
C3_ManifestReplayed ==
    (loaded_actions_path /= NoPath /\ pc["app"] = "idle") =>
        /\ ~panicked
        /\ get_loaded_actions(session_data)
        /\ session_data.attach_calls = 1
        /\ \A i \in 1..Len(ManifestActions) :
              get_action_from_handle(session_data,
                  manifest_handle(action_map, ManifestActions[i])) = "None"
        /\ \A i \in 1..Len(ManifestSets) :
              update_action_state_error(session_data,
                  <<manifest_handle(set_map, ManifestSets[i])>>) = "None"
        /\ (/\ remembered.op = "GetActionHandle"
            /\ \E i \in 1..Len(ManifestActions) :
                  EqIgnoreCase(remembered.name, ManifestActions[i]))
              => get_action_from_handle(session_data, remembered.handle) = "None"

\* C3 witness: the session was just restarted with the manifest path
\* stored, and the action handle the application kept from before reads.
C3_Witness ==
    /\ ret.op = "restart_session"
    /\ loaded_actions_path = ManifestPath
    /\ session_data.real
    /\ get_loaded_actions(session_data)
    /\ remembered.op = "GetActionHandle"
    /\ get_action_from_handle(session_data, remembered.handle) = "None"

\* C6: two calls of the same getter with names that are equal up to case
\* (action and action-set paths) or equal (input sources) return the same
\* handle value, however far apart the calls are and whether the manifest
\* was loaded before, between or after them.
C6_StableHandles ==
    (/\ remembered.op = ret.op
     /\ \/ /\ ret.op \in {"GetActionHandle", "GetActionSetHandle"}
           /\ EqIgnoreCase(remembered.name, ret.name)
        \/ /\ ret.op = "GetInputSourceHandle"
           /\ remembered.name = ret.name)
        => remembered.handle = ret.handle

\* C6 witness: with the manifest loaded, an action handle was asked for
\* under a spelling that differs in case from the one asked for earlier.
C6_Witness ==
    /\ remembered.op = "GetActionHandle"
    /\ ret.op = "GetActionHandle"
    /\ remembered.name /= ret.name
    /\ EqIgnoreCase(remembered.name, ret.name)
    /\ remembered.handle = ret.handle
    /\ get_loaded_actions(session_data)

\* C7: handle values of the three kinds are pairwise distinct, and a lookup
\* of a handle under a kind it was not issued for, but another kind was,
\* fails with InvalidHandle.
C7_KindsDisjoint ==
    /\ issued(action_map) \cap issued(set_map) = {}
    /\ issued(action_map) \cap issued(input_source_map) = {}
    /\ issued(set_map) \cap issued(input_source_map) = {}
    /\ (/\ ret.op = "GetDigitalActionData"
        /\ ret.handle \notin issued(action_map)
        /\ ret.handle \in issued(set_map) \cup issued(input_source_map))
          => ret.err = "InvalidHandle"
    /\ (/\ ret.op = "UpdateActionState"
        /\ ret.handle \notin issued(set_map)
        /\ ret.handle \in issued(action_map) \cup issued(input_source_map))
          => ret.err \notin {"None"}
    /\ (/\ ret.op = "GetOriginTrackedDeviceInfo"
        /\ ret.handle \notin issued(input_source_map)
        /\ ret.handle \in issued(action_map) \cup issued(set_map))
          => ret.err = "InvalidHandle"

\* C8: a handle value that the map of its kind never issued does not
\* resolve to a live object: the lookup fails.
C8_UnissuedNeverResolves ==
    /\ (ret.op = "GetDigitalActionData" /\ ret.handle \notin issued(action_map))
          => ret.err = "InvalidHandle"
    /\ (ret.op = "UpdateActionState" /\ ret.handle \notin issued(set_map))
          => ret.err /= "None"
    /\ (ret.op = "GetOriginTrackedDeviceInfo"
            /\ ret.handle \notin issued(input_source_map))
          => ret.err = "InvalidHandle"

----------------------------------------------------------------------------
(* Manifest load against the frame thread                                  *)

\* A real session whose legacy action set a frame_start_update attached.
LegacySession ==
    [SessionData(TRUE) EXCEPT !.legacy_actions = TRUE, !.attach_calls = 1]

InitRace == InitWith({"direct"}, LegacySession, RetIndex("frame_start_update", 0, TRUE))

\* The application thread loads its manifest and then uses it, while the
\* frame thread keeps running frame_start_update.
NextRace ==
    \/ SetActionManifestPath_begin
    \/ SetActionManifestPath_restart
    \/ SetActionManifestPath_load
    \/ frame_start_update_begin("frame")
    \/ frame_start_update_setup("frame")
    \/ frame_start_update_store("frame")
    \/ \E d \in {1, 2} : get_legacy_controller_state(d, TRUE)
    \/ \E sets \in {<<as_ffi(KeyAt(1))>>} : UpdateActionState(sets)
    \/ \E h \in {as_ffi(KeyAt(1))} : GetDigitalActionData(h, InvalidHandle)
    \/ \E h \in Hands : XrInput(h)

SpecRace == InitRace /\ [][NextRace]_vars

\* C2: SetActionManifestPath and frame_start_update running concurrently
\* from a real session with the legacy set attached never panic and never
\* attach action sets to a session twice; once both calls are over the
\* session holds the manifest's actions, get_legacy_controller_state
\* returns false and the manifest's action set and action sync and read.
C2_RaceSafe ==
    /\ ~panicked
    /\ session_data.attach_calls <= 1
    /\ (loaded_actions_path /= NoPath /\ \A t \in Threads : pc[t] = "idle") =>
          /\ get_loaded_actions(session_data)
          /\ ret.op = "get_legacy_controller_state" => ~ret.ok
          /\ ret.op \in {"UpdateActionState", "GetDigitalActionData"} => ret.err = "None"

----------------------------------------------------------------------------
(* Pose reads (input/devices.rs, system.rs)                                *)

\* IVRSystem::GetDeviceToAbsoluteTrackingPose: Input::get_poses fills the
\* array for every device; `index` is the entry the application looks at.
GetDeviceToAbsoluteTrackingPose(origin, index) ==
    /\ Idle("app")
    /\ LET got == [d \in Devices |-> get_pose(devices[d], world, origin)]
       IN  /\ devices' = [d \in Devices |-> got[d].device]
           /\ ret' = RetPose("GetDeviceToAbsoluteTrackingPose", index, origin,
                             IF got[index].pose = NoPose THEN DefaultPose
                             ELSE got[index].pose)
    /\ UNCHANGED <<handle_vars, loaded_actions_path, session_data, panicked, pc,
                   remembered, legacy_vars>>
    /\ UNCHANGED <<bind_vars, restarted_in_frame, world>>

\* Input::get_device_pose: nothing for an index no device has.
get_device_pose(op, index, origin) ==
    /\ Idle("app")
    /\ IF index \in Devices
       THEN LET got == get_pose(devices[index], world, origin)
            IN  /\ devices' = [devices EXCEPT ![index] = got.device]
                /\ ret' = RetPose(op, index, origin, got.pose)
       ELSE /\ ret' = RetPose(op, index, origin, NoPose)
            /\ UNCHANGED devices
    /\ UNCHANGED <<handle_vars, loaded_actions_path, session_data, panicked, pc,
                   remembered, legacy_vars>>
    /\ UNCHANGED <<bind_vars, restarted_in_frame, world>>

\* Input::get_controller_pose
get_controller_pose(hand, origin) ==
    get_device_pose("get_controller_pose", get_controller_index(hand), origin)

\* The tracked devices move.
XrWorld(at) ==
    /\ at /= world
    /\ world' = at
    /\ UNCHANGED <<handle_vars, loaded_actions_path, session_data, panicked, pc,
                   ret, remembered, legacy_vars>>
    /\ UNCHANGED <<bind_vars, devices, restarted_in_frame>>

\* An application that reads poses while frames start, the devices move
\* and the session is restarted.
NextPose ==
    \/ RestartSession
    \/ frame_start_update_begin("app")
    \/ frame_start_update_setup("app")
    \/ frame_start_update_store("app")
    \/ \E o \in Origins, d \in {0, 1} : GetDeviceToAbsoluteTrackingPose(o, d)
    \/ \E o \in Origins, d \in {0, 3} : get_device_pose("get_device_pose", d, o)
    \/ \E o \in Origins : get_controller_pose("left", o)
    \/ \E at \in Worlds : XrWorld(at)
    \/ RememberRead

SpecPose == Init /\ [][NextPose]_vars

\* Two pose reads of the same device relative to the same origin.
SamePoseRead(r1, r2) ==
    /\ r1.op \in PoseReads
    /\ r2.op \in PoseReads
    /\ r1.index = r2.index
    /\ r1.origin = r2.origin

C10_PosePerOrigin ==
    (ret.op \in PoseReads /\ ret.pose /= NoPose) => ret.pose.origin = ret.origin

----------------------------------------------------------------------------
(* Pose cache invalidation (input/devices.rs, input/tests.rs)              *)

\* Events after which the cached poses are said to be gone.
CacheInvalidations ==
    {"frame_start_update", "reset_tracking_space", "interaction_profile_changed"}

\* OpenXrData::reset_tracking_space (IVRSystem::ResetSeatedZeroPose,
\* IVRChaperone::ResetZeroPose): the reference space is recentred and every
\* device's cached pose is dropped.
reset_tracking_space ==
    /\ Idle("app")
    /\ devices' = [d \in Devices |-> clear_pose_cache(devices[d])]
    /\ ret' = RetIndex("reset_tracking_space", 0, TRUE)
    /\ remembered' = IF remembered.op \in PoseReads THEN NoRet ELSE remembered
    /\ UNCHANGED <<handle_vars, loaded_actions_path, session_data, panicked, pc,
                   legacy_vars>>
    /\ UNCHANGED <<bind_vars, restarted_in_frame, world>>

\* The runtime reports another interaction profile for the controllers and
\* poll_events hands it to the devices (raw_pose_switch_profile): the
\* controllers take the new profile; the cached poses stay until the next
\* frame starts.
interaction_profile_changed(profile) ==
    /\ Idle("app")
    /\ \E d \in Devices : devices[d].interaction_profile \notin {"none", profile}
    /\ devices' = [d \in Devices |->
                      IF devices[d].interaction_profile = "none" THEN devices[d]
                      ELSE [devices[d] EXCEPT !.interaction_profile = profile]]
    /\ ret' = RetIndex("interaction_profile_changed", 0, TRUE)
    /\ UNCHANGED <<handle_vars, loaded_actions_path, session_data, panicked, pc,
                   remembered, legacy_vars>>
    /\ UNCHANGED <<bind_vars, restarted_in_frame, world>>

\* An application that reads poses while frames start, the devices move,
\* the tracking space is recentred and the controllers change profile.
NextCache ==
    \/ frame_start_update_begin("app")
    \/ reset_tracking_space
    \/ \E p \in Profiles : interaction_profile_changed(p)
    \/ \E o \in Origins, d \in {0, 1} : GetDeviceToAbsoluteTrackingPose(o, d)
    \/ \E o \in Origins : get_controller_pose("left", o)
    \/ \E at \in Worlds : XrWorld(at)
    \/ RememberRead

SpecCache == Init /\ [][NextCache]_vars

\* C11: right after frame_start_update, after a reference-space change and
\* after an interaction-profile change every device's pose-cache slot is
\* empty, so a pose read never returns a pose memoized before the event: the
\* pose a controller read returns is built with the controller's current
\* interaction profile.
C11_CacheEmptyAfterInvalidation ==
    /\ ret.op \in CacheInvalidations =>
           \A d \in Devices : devices[d].pose_cache = NoPose
    /\ (ret.op \in PoseReads /\ ret.index \in Devices /\ ret.pose \notin {NoPose, DefaultPose}) =>
           ret.pose.at.profile = devices[ret.index].interaction_profile

----------------------------------------------------------------------------
(* Action reads                                                            *)

\* Handles of input sources passed as restrict_to_device: none, the two
\* hands, and a value the map never handed out.
RestrictProbes == {InvalidHandle} \cup {as_ffi(KeyAt(i)) : i \in 1..3}

InitBind == InitWith(BindingKinds, SessionData(FALSE), NoRet)

\* An application that loads its manifest, syncs and reads its actions
\* while the user moves the bound input.
NextBind ==
    \/ SetActionManifestPath_begin
    \/ SetActionManifestPath_load
    \/ \E sets \in {<<as_ffi(KeyAt(1))>>} : UpdateActionState(sets)
    \/ \E input \in BindInputs(binding_kind) : XrBindInput(input)
    \/ \E h \in {as_ffi(KeyAt(i)) : i \in 1..2}, r \in RestrictProbes :
          binding_kind \in {"direct", "dpad_data", "grab_data"}
              /\ GetDigitalActionData(h, r)
    \/ \E h \in Hands : BindingData_state(h)
    \/ RememberRead

SpecBind == InitBind /\ [][NextBind]_vars

\* Two reads of the same action for the same hand through the same call.
SameRead(r1, r2) ==
    /\ r1.op \in ActionReads
    /\ r1.op = r2.op
    /\ r1.err = "None" /\ r2.err = "None"
    /\ r1.handle = r2.handle
    /\ r1.hand = r2.hand

\* C4: between two consecutive UpdateActionState calls, every read of the
\* same (action, hand) returns identical data.
C4_ReadsIdenticalWithinSync ==
    SameRead(remembered, ret) => remembered.data = ret.data

\* C5: with the physical input fixed across two consecutive
\* UpdateActionState calls, an action read after the second call has the
\* bActive and bState it had after the first call, and bChanged false.
C5_FixedInputStableRead ==
    (same_input /\ SameRead(last_period, ret)) =>
        /\ ret.data.active = last_period.data.active
        /\ ret.data.state = last_period.data.state
        /\ ~ret.data.changed

----------------------------------------------------------------------------
(* Legacy input events (input/legacy.rs, system.rs)                        *)

\* The hand inputs an application's user changes: the thumbstick click and
\* touch of the left controller, the trigger of the right one.
LegacyInputs ==
    {<<"left", "main_xy_click">>, <<"left", "main_xy_touch">>,
     <<"right", "trigger_click">>}

\* A legacy application: it starts frames, reads the state of both
\* controllers and polls events while the user works the controllers.
NextEvents ==
    \/ frame_start_update_begin("app")
    \/ \E d \in DeviceIndices, m \in BOOLEAN : get_legacy_controller_state(d, m)
    \/ PollNextEvent
    \/ \E i \in LegacyInputs : XrLegacyInput(i[1], i[2])

SpecEvents == InitRace /\ [][NextEvents]_vars

\* The (button id, event kind, action) triples a read looks at, in order.
ButtonChecks ==
    << <<"Axis0", "touch", "main_xy_touch">>,
       <<"Axis0", "click", "main_xy_click">>,
       <<"SteamVR_Trigger", "click", "trigger_click">> >>

RECURSIVE ChangedEvents(_, _, _, _)
\* One event for every check, from the i-th on, whose action changed in the
\* last sync.
ChangedEvents(i, device_index, actions, packet) ==
    IF i > Len(ButtonChecks) THEN <<>>
    ELSE LET check == ButtonChecks[i]
             state == actions[check[3]]
             ty == IF check[2] = "touch"
                   THEN (IF state.current_state THEN "ButtonTouch" ELSE "ButtonUntouch")
                   ELSE (IF state.current_state THEN "ButtonPress" ELSE "ButtonUnpress")
         IN  (IF state.changed_since_last_sync
              THEN <<InputEvent(ty, device_index, check[1], packet)>>
              ELSE <<>>)
             \o ChangedEvents(i + 1, device_index, actions, packet)

\* The hands whose first read after the sync this step is.
FirstReads ==
    {h \in Hands : ~legacy_state.got_state_this_frame[h]
                   /\ legacy_state'.got_state_this_frame[h]}

\* What C12 says of one step.
C12_Step ==
    IF legacy_state'.packet_num /= legacy_state.packet_num
    THEN \* a sync: every hand's next read is a first read again, and the
         \* sync itself queues nothing
         /\ \A h \in Hands : ~legacy_state'.got_state_this_frame[h]
         /\ events' = events
    ELSE /\ \A h \in Hands : legacy_state.got_state_this_frame[h]
                                 => legacy_state'.got_state_this_frame[h]
         /\ Cardinality(FirstReads) <= 1
         /\ FirstReads = {} => Len(events') <= Len(events)
         /\ \A h \in FirstReads :
                events' = events \o ChangedEvents(1, get_controller_index(h),
                                                  session_data.action_state[h],
                                                  legacy_state.packet_num)

IsPoll == ret'.op = "PollNextEvent" /\ (ret' /= ret \/ events' /= events)

\* What C13 says of one step.
C13_Step ==
    /\ IsPoll =>
          IF events = <<>>
          THEN ~ret'.ok /\ events' = events
          ELSE ret'.ok /\ ret'.event = Head(events) /\ events' = Tail(events)
    /\ (~IsPoll /\ events' /= events) =>
          /\ Len(events') > Len(events)
          /\ SubSeq(events', 1, Len(events)) = events
    /\ \A i, j \in 1..Len(events') : i < j => events'[i].packet <= events'[j].packet

\* C13: PollNextEvent delivers the events in the order in which they were
\* queued, each once; the events of a later sync come after all events of
\* earlier syncs; PollNextEvent returns false exactly when the queue is
\* empty.
C13_EventsFifo == [][C13_Step]_vars

\* C13 witness: a poll delivered an event of an earlier sync while an event
\* of a later sync was still queued behind it.
C13_Witness ==
    /\ ret.op = "PollNextEvent" /\ ret.ok
    /\ events /= <<>>
    /\ ret.event.packet < Head(events).packet

----------------------------------------------------------------------------
(* Custom binding evaluators (input/custom_bindings.rs)                    *)

CustomKinds == {"Dpad", "Grab", "Toggle", "Threshold"}

\* The parameters explored for each kind of binding: the defaults, grab
\* thresholds below and above one, click thresholds other than the
\* defaults, every dpad direction with an activator, two without.
CustomParams(kind) ==
    CASE kind = "Grab" ->
            {NoParams,
             [NoParams EXCEPT !.value_hold_threshold = SomeF32(160),
                              !.value_release_threshold = SomeF32(150)],
             [NoParams EXCEPT !.value_hold_threshold = SomeF32(1160),
                              !.value_release_threshold = SomeF32(1150)]}
      [] kind = "Threshold" ->
            {NoParams,
             [NoParams EXCEPT !.click_activate_threshold = SomeF32(600),
                              !.click_deactivate_threshold = SomeF32(400)]}
      [] kind = "Dpad" ->
            {[NoParams EXCEPT !.direction = d] : d \in DpadDirections}
                \cup {[NoParams EXCEPT !.direction = d, !.click_or_touch = FALSE] :
                        d \in {"East", "Center"}}
      [] OTHER -> {NoParams}

\* Stick positions in the centre, on the centre zone's edge to the north
\* and east, far out in the south, on either side of the negative x axis
\* and inside the centre zone off the axes.
DpadPoints ==
    {<<0, 0>>, <<0, 500>>, <<500, 0>>, <<0, -700>>, <<-900, 100>>, <<-900, -100>>,
     <<300, 200>>}

\* The physical inputs explored for each kind of binding: values on, on
\* either side of, and between the thresholds the kind compares against.
CustomInputs(kind) ==
    {NoBindInput} \cup
    CASE kind = "Toggle" ->
            {BindInput(TRUE, c, 0, 0, FALSE) : c \in BOOLEAN}
      [] kind = "Threshold" ->
            {BindInput(TRUE, FALSE, 0, v, FALSE) :
                v \in {100, 200, 220, 250, 400, 500, 600}}
      [] kind = "Grab" ->
            {BindInput(TRUE, FALSE, 0, v, FALSE) : v \in {0, 600, 650, 680, 700, 1000}}
                \cup {BindInput(TRUE, FALSE, f, 0, FALSE) : f \in {140, 150, 155, 170}}
      [] OTHER ->
            {DpadInput(TRUE, 400, p[1], p[2]) : p \in DpadPoints}
                \cup {DpadInput(TRUE, f, 0, 500) : f \in {0, 200, 250, 330}}
                \cup {DpadInput(TRUE, 250, 500, 0)}

InitCustom ==
    /\ Input_new(SessionData(FALSE), NoRet)
    /\ binding_kind \in CustomKinds
    /\ binding_params \in CustomParams(binding_kind)

\* An application that loads its manifest, syncs and reads the binding of
\* either hand while the user moves the bound input.
NextCustom ==
    \/ SetActionManifestPath_begin
    \/ SetActionManifestPath_load
    \/ UpdateActionState(<<as_ffi(KeyAt(1))>>)
    \/ \E input \in CustomInputs(binding_kind) : XrBindInput(input)
    \/ \E h \in Hands : BindingData_state(h)

SpecCustom == InitCustom /\ [][NextCustom]_vars

\* The step evaluates the binding of the given kind: its first read since
\* the last sync.
Evaluates(kind) ==
    /\ binding_kind = kind
    /\ get_loaded_actions(session_data)
    /\ ~session_data.bindings.last_state.synced
    /\ session_data'.bindings.last_state.synced

\* The bound input as of the last sync, and the evaluator's latch.
Source == session_data.bind_state.input
Latch == session_data.bindings.ty_last_state

\* Any other step of a session with loaded actions leaves the latch alone,
\* and a read of the binding's hand that finds the memo returns the memo.
OnlyEvaluationLatches(kind) ==
    (binding_kind = kind /\ get_loaded_actions(session_data) /\ ~Evaluates(kind)) =>
        /\ Latch' = Latch
        /\ (session_data.bindings.last_state.synced
              /\ ret'.op = "BindingData_state" /\ ret'.hand = BindingHand) =>
                ret'.data = (IF session_data.bindings.last_state.some
                             THEN DigitalData(session_data.bindings.last_state.state)
                             ELSE NoData)

\* What C14 says of one step.
C14_Step ==
    /\ (Evaluates("Grab") /\ Source.active) =>
          LET v == IF Source.force > 0 THEN Source.force + 1000 ELSE Source.value
              hold == unwrap_or(binding_params.value_hold_threshold, 700)
              release == unwrap_or(binding_params.value_release_threshold, 650)
          IN  /\ ~Latch => (Latch' <=> v >= hold)
              /\ Latch => (~Latch' <=> v <= release)
              /\ ret'.data.active
              /\ ret'.data.state = Latch'
              /\ ret'.data.changed = (Latch' /= Latch)
    /\ OnlyEvaluationLatches("Grab")

C15_Step_AsStated ==
    (Evaluates("Grab") /\ Source.active /\ Source.force > 0
        /\ binding_params.value_hold_threshold.some) =>
        LET hold == binding_params.value_hold_threshold.value
            release == binding_params.value_release_threshold.value
        IN  /\ (~Latch /\ Source.force >= hold) => (Latch' /\ ret'.data.changed)
            /\ (Latch /\ Source.force <= release) => (~Latch' /\ ret'.data.changed)

C15_Step ==
    (Evaluates("Grab") /\ Source.active /\ Source.force > 0
        /\ binding_params.value_hold_threshold.some) =>
        LET hold == binding_params.value_hold_threshold.value
            release == binding_params.value_release_threshold.value
            v == Source.force + 1000
        IN  /\ (~Latch /\ v >= hold) => (Latch' /\ ret'.data.state /\ ret'.data.changed)
            /\ (~Latch /\ v < hold) => (~Latch' /\ ~ret'.data.state /\ ~ret'.data.changed)
            /\ (Latch /\ v > release) => (Latch' /\ ret'.data.state /\ ~ret'.data.changed)
            /\ (Latch /\ v <= release) => (~Latch' /\ ~ret'.data.state /\ ret'.data.changed)

C16_Step ==
    /\ (Evaluates("Toggle") /\ Source.active) =>
          LET rising == session_data.bind_state.click_changed /\ Source.click
          IN  /\ Latch' = (IF rising THEN ~Latch ELSE Latch)
              /\ ret'.data.active
              /\ ret'.data.state = Latch'
              /\ ret'.data.changed = rising
    /\ OnlyEvaluationLatches("Toggle")

C17_Step ==
    /\ (Evaluates("Threshold") /\ Source.active) =>
          LET click == unwrap_or(binding_params.click_activate_threshold, 250)
              release == unwrap_or(binding_params.click_deactivate_threshold, 200)
          IN  /\ release < click
              /\ ~Latch => (Latch' <=> Source.value >= click)
              /\ Latch => (~Latch' <=> Source.value < release)
              /\ ret'.data.active
              /\ ret'.data.state = Latch'
    /\ OnlyEvaluationLatches("Threshold")

DirectionVector(direction) ==
    CASE direction = "North" -> <<0, 1>>
      [] direction = "East" -> <<1, 0>>
      [] direction = "South" -> <<0, -1>>
      [] OTHER -> <<-1, 0>>

\* (x, y) lies at radius >= 0.5 within a quarter turn centred on the
\* direction (the cosine of the angle between them is at least the sine's
\* magnitude), or, for the centre, at radius < 0.5.
InWedge(direction, x, y) ==
    LET d == DirectionVector(direction)
        along == x * d[1] + y * d[2]
        across == x * d[2] - y * d[1]
        far == x * x + y * y >= 250000
    IN  IF direction = "Center" THEN ~far
        ELSE far /\ along > 0 /\ along >= abs(across)

\* The dpad's activator is pressed beyond the activation threshold, or the
\* dpad has none.
Pressed == ~binding_params.click_or_touch \/ Source.force > 330

\* What C18 says of one step.
C18_Step ==
    (Evaluates("Dpad") /\ Source.active /\ Pressed) =>
        LET value == InWedge(binding_params.direction, Source.x, Source.y)
        IN  /\ ret'.data.active
            /\ ret'.data.state = value
            /\ ret'.data.changed = (value /= Latch)
            /\ Latch' = value

C19_Step ==
    (Evaluates("Dpad") /\ Source.active /\ binding_params.click_or_touch) =>
        LET was == session_data.bindings.ty_active
            now == session_data'.bindings.ty_active
        IN  /\ ~was => (now <=> Source.force > 330)
            /\ (was /\ session_data.bindings.ty_activator_bound) =>
                   (now <=> Source.force > 200)

\* C19: a force-activated dpad becomes activated when the force rises above
\* 0.33 and, once activated, stays activated until the force falls to 0.20;
\* forces between 0.20 and 0.33 never change the activation, also while the
\* stick moves from one wedge to another.
C19_DpadForceHysteresis == [][C19_Step]_vars

----------------------------------------------------------------------------
(* A boolean action bound in several ways                                  *)

\* The physical inputs explored for an action with a boolean input, dpad
\* data and grab data: each custom source unbound, off and on, with the
\* boolean input unbound, released and pressed.
MixedInputs ==
    {MixedInput(bound, native, input) :
        bound \in BOOLEAN, native \in BOOLEAN,
        input \in {NoBindInput,
                   BindInput(TRUE, FALSE, 0, 0, FALSE),
                   BindInput(TRUE, TRUE, 0, 0, FALSE),
                   BindInput(TRUE, TRUE, 0, 0, TRUE),
                   BindInput(TRUE, FALSE, 200, 1000, FALSE)}}

InitMixed ==
    /\ Input_new(SessionData(FALSE), NoRet)
    /\ binding_kind \in MixedKinds
    /\ binding_params = NoParams

\* An application that loads its manifest, syncs and reads the boolean
\* action for either hand or for none while the user moves the inputs.
NextMixed ==
    \/ SetActionManifestPath_begin
    \/ SetActionManifestPath_load
    \/ \E sets \in {<<as_ffi(KeyAt(1))>>} : UpdateActionState(sets)
    \/ \E input \in MixedInputs : XrBindInput(input)
    \/ \E r \in RestrictProbes : GetDigitalActionData(as_ffi(KeyAt(1)), r)

SpecMixed == InitMixed /\ [][NextMixed]_vars

\* The step is a read of the boolean action that reached the action data.
ReadsBool ==
    /\ ret'.op = "GetDigitalActionData" /\ ret'.ok
    /\ binding_kind \in MixedKinds
    /\ ret' /= ret \/ session_data' /= session_data

\* The boolean input is pressed, as seen for the hand of the read.
NativeTrue(subaction_path) ==
    LET scoped == xr_state(session_data.bind_state, subaction_path)
    IN  scoped.input.native_bound /\ scoped.input.native

\* An evaluator's answer counts as true when it gives one and it is true.
EvaluatesTrue(evaluated) == evaluated.some /\ evaluated.state.current_state

\* The dpad and the grab evaluate to true on the sources of the hand of
\* the read.
CustomTrueForHand(subaction_path) ==
    LET scoped == xr_state(session_data.bind_state, subaction_path)
        bindings == session_data.bindings
    IN  \/ EvaluatesTrue(input_DpadData_state(bindings.dpad_last_state, scoped))
        \/ EvaluatesTrue(GrabBindingData_grabbed(bindings.grab_last_state, scoped,
                                                 subaction_path))

\* What C20 says of one step.
C20_Step ==
    ReadsBool =>
        (ret'.data.state <=> NativeTrue(ret'.hand) \/ CustomTrueForHand(ret'.hand))

\* C20: the boolean reported for an action and hand is true iff the directly
\* bound boolean input is true or at least one custom evaluator bound to the
\* action for that hand evaluates to true; a true native boolean is never
\* masked by a false or inactive custom evaluator.
C20_BoolIsOrForHand == [][C20_Step]_vars

\* The part of C20 about masking alone: a pressed boolean input of the hand
\* of the read is reported as true, with the action active.
NativeNeverMasked ==
    [][ReadsBool /\ NativeTrue(ret'.hand) => ret'.data.state /\ ret'.data.active]_vars

\* The reported boolean as the code computes it: the dpad data answers for
\* the sources of every hand, whatever hand the read is restricted to.
BoolIsOrOfActionData ==
    [][ReadsBool =>
        (ret'.data.state <=>
            \/ NativeTrue(ret'.hand)
            \/ EvaluatesTrue(input_DpadData_state(
                    session_data.bindings.dpad_last_state, session_data.bind_state))
            \/ EvaluatesTrue(GrabBindingData_grabbed(
                    session_data.bindings.grab_last_state,
                    xr_state(session_data.bind_state, ret'.hand), ret'.hand)))]_vars

----------------------------------------------------------------------------
(* Legacy input and the session life cycle (input.rs, input/legacy.rs)     *)

\* The session serves legacy input: the legacy actions are stored and no
\* manifest is loaded.
LegacyOnly(data) == get_legacy_actions(data) /\ ~get_loaded_actions(data)

\* What C24 says of one step: a controller-state query that returns true is
\* made on a real session that serves legacy input; the session starts to
\* serve legacy input only in the step in which a frame_start_update, begun
\* on the real session, stores the actions it attached; and the legacy set
\* is attached by frame_start_update only to the real session.
C24_Step ==
    /\ (ret'.op = "get_legacy_controller_state" /\ ret' /= ret /\ ret'.ok) =>
           /\ is_real_session(session_data)
           /\ LegacyOnly(session_data)
           /\ session_data.attach_calls > 0
    /\ (LegacyOnly(session_data') /\ ~LegacyOnly(session_data)) =>
           /\ \E t \in Threads : pc[t] = "fsu_store" /\ pc'[t] = "idle"
           /\ is_real_session(session_data)
           /\ session_data' = [session_data EXCEPT !.legacy_actions = TRUE]
    /\ (\E t \in Threads : pc[t] = "fsu_setup" /\ pc'[t] /= "fsu_setup") =>
           is_real_session(session_data) /\ is_real_session(session_data')

----------------------------------------------------------------------------
(* Handles and output structures of the action readers (input.rs)          *)

\* An application that restarts sessions, loads its manifest, runs frames
\* and calls the readers with handles of every sort, known and unknown,
\* passing structures that hold the default or leftovers.
NextApi ==
    \/ SessionStep
    \/ \E sets \in {<<>>} \cup {<<h>> : h \in HandleProbes} : UpdateActionState(sets)
    \/ \E input \in {NoBindInput, BindInput(TRUE, TRUE, 0, 500, FALSE)} :
          XrBindInput(input)
    \/ \E h \in HandleProbes, r \in RestrictProbes : GetDigitalActionData(h, r)
    \/ \E h \in HandleProbes, r \in RestrictProbes : GetAnalogActionData(h, r)
    \/ \E h \in HandleProbes : GetOriginTrackedDeviceInfo(h)
    \/ \E d \in DeviceIndices, m \in BOOLEAN : get_legacy_controller_state(d, m)

SpecApi == Init /\ [][NextApi]_vars

\* The handle identifies an action of the loaded manifest, a set of the
\* loaded manifest, an input source of the map.
KnownAction(handle) ==
    /\ get_loaded_actions(session_data)
    /\ slot_contains(session_data.loaded_actions.actions, from_ffi(handle))

KnownSet(handle) ==
    /\ get_loaded_actions(session_data)
    /\ slot_contains(session_data.loaded_actions.sets, from_ffi(handle))

KnownSource(handle) == slot_contains(1..Len(input_source_map), from_ffi(handle))

\* The step made no action sync.
NoSync ==
    /\ legacy_state' = legacy_state
    /\ session_data'.action_state = session_data.action_state
    /\ session_data'.bind_state = session_data.bind_state

\* What C28 says of one step: a call given a handle that identifies no
\* known object of its kind returns InvalidHandle and syncs nothing.
C28_Step ==
    /\ (/\ ret'.op \in {"GetDigitalActionData", "GetAnalogActionData"}
        /\ ret' /= ret
        /\ ~KnownAction(ret'.handle) \/ ret'.hand = "missing") =>
            ret'.err = "InvalidHandle" /\ NoSync
    /\ (/\ ret'.op = "UpdateActionState"
        /\ ret' /= ret
        /\ ret'.err /= "NoActiveActionSet"
        /\ ~KnownSet(ret'.handle)) =>
            ret'.err = "InvalidHandle" /\ NoSync
    /\ (/\ ret'.op = "GetOriginTrackedDeviceInfo"
        /\ ret' /= ret
        /\ ~KnownSource(ret'.handle)) =>
            ret'.err = "InvalidHandle" /\ NoSync

\* C28: every Input API that takes an action, action-set or input-source
\* handle returns InvalidHandle, never success and never another error, when
\* the handle identifies no known object of that kind, and then performs no
\* action sync.
C28_UnknownHandleIsInvalidHandle == [][C28_Step]_vars

\* C30: whenever GetDigitalActionData, GetAnalogActionData or
\* get_legacy_controller_state fails, the output structure is left fully
\* default-initialized, whatever it contained before and whichever failure
\* occurred.
C30_OutputDefaultOnFailure ==
    /\ (ret.op = "GetDigitalActionData" /\ ret.err /= "None") => ret.data = NoData
    /\ (ret.op = "GetAnalogActionData" /\ ret.err /= "None") => ret.analog = NoAnalog
    /\ (ret.op = "get_legacy_controller_state" /\ ~ret.ok) =>
           ret.state = NoControllerState

\* The part of C30 that holds: past its size check, a failing
\* get_legacy_controller_state leaves the default in the structure; and the
\* readers write the default when the restricting input source is unknown.
OutputDefaultWhereWritten ==
    [][/\ (/\ ret'.op = "get_legacy_controller_state" /\ ret' /= ret /\ ~ret'.ok
           /\ ret'.state /= NoControllerState) =>
              /\ ret'.state = BadControllerState
              /\ \A d \in DeviceIndices :
                     ~legacy_result_ignoring_manifest(session_data, d, FALSE)
       /\ (ret'.op = "GetDigitalActionData" /\ ret'.hand = "missing"
           /\ ret'.err = "None") => ret'.data = NoData
       /\ (ret'.op = "GetAnalogActionData" /\ ret'.hand = "missing"
           /\ ret'.err = "None") => ret'.analog = NoAnalog]_vars

\* A read restricted to an input source handle no getter issued came back
\* with success and default data.
UnknownSourceSucceeds ==
    /\ ret.op = "GetDigitalActionData" /\ ret.hand = "missing"
    /\ ret.err = "None" /\ ret.data = NoData
    /\ KnownAction(ret.handle)

----------------------------------------------------------------------------
(* The packet number of the legacy controller state                        *)

\* The step is an action sync on a session whose legacy actions are stored:
\* a successful UpdateActionState, or a frame_start_update on a session that
\* serves legacy input.
SyncsLegacy ==
    \/ /\ ret'.op = "UpdateActionState" /\ ret'.err = "None"
       /\ ret' /= ret \/ session_data' /= session_data \/ legacy_state' /= legacy_state
    \/ /\ ret'.op = "frame_start_update" /\ LegacyOnly(session_data)
       /\ \A t \in Threads : pc[t] = "idle"
       /\ ret' /= ret \/ session_data' /= session_data \/ legacy_state' /= legacy_state
          \/ devices' /= devices

\* What C27 says of one step: a read reports the current packet number and
\* does not change it; a sync raises it by exactly one; nothing else
\* changes it.
C27_Step ==
    /\ (ret'.op = "get_legacy_controller_state" /\ ret'.ok /\ ret' /= ret) =>
           /\ ret'.state.packet_num = legacy_state.packet_num
           /\ legacy_state'.packet_num = legacy_state.packet_num
    /\ SyncsLegacy => legacy_state'.packet_num = legacy_state.packet_num + 1
    /\ ~SyncsLegacy => legacy_state'.packet_num = legacy_state.packet_num

----------------------------------------------------------------------------
(* The tracked-device table (input/devices.rs, system.rs)                  *)

\* The external devices a runtime lists are explored up to this many.
MaxXdevs == 4

\* Kinds of external devices: a tracker, a tracker no space can be created
\* for, and a device that is no tracker.
XDevKinds == {<<<<"T">>, TRUE>>, <<<<"t">>, FALSE>>, <<<<"c">>, TRUE>>}

\* A tracker a space can be created for.
UsableKind == <<<<"T">>, TRUE>>

\* The lists of external devices a runtime may report: every mix of up to
\* two devices, and longer lists of usable trackers; the serial of a device
\* is its place in the list.
XDevLists ==
    UNION {{[i \in 1..n |-> XDev(kinds[i][1], kinds[i][2], i)] :
               kinds \in [1..n -> IF n <= 2 THEN XDevKinds ELSE {UsableKind}]} :
           n \in 0..MaxXdevs}

\* Interaction profiles the runtime can give a hand; "none" is XR_NULL_PATH.
HandProfiles == {"none"} \cup Profiles

\* fakexr::set_interaction_profile, or the user switching a controller on
\* or off: the runtime will report `profile` for `hand` from the next
\* xrSyncActions on.
XrSetInteractionProfile(hand, profile) ==
    /\ session_data.suggested_profile[hand] /= profile
    /\ session_data' = [session_data EXCEPT !.suggested_profile[hand] = profile,
                                            !.frames = 0]
    /\ UNCHANGED <<handle_vars, loaded_actions_path, panicked, pc, ret, remembered,
                   legacy_vars>>
    /\ UNCHANGED <<bind_vars, pose_vars>>

\* Input::interaction_profile_changed for one hand: a hand the runtime has
\* a profile for gets a controller device, pushed at the end of the list
\* when the hand has none yet; the device takes the profile and is
\* connected exactly while the hand has a profile.
hand_profile_changed(list, hand, profile) ==
    LET index == find_controller_index(list, hand)
    IN  IF index /= NoIndex
        THEN [list |-> [list EXCEPT ![index + 1].interaction_profile =
                                        IF profile = "none" THEN @ ELSE profile,
                                    ![index + 1].connected = (profile /= "none")],
              err |-> "None", index |-> index]
        ELSE IF profile = "none"
        THEN [list |-> list, err |-> "None", index |-> NoIndex]
        ELSE LET pushed == push_device(list, new_device(Controller(hand), profile))
             IN  IF pushed.err /= "None" THEN pushed
                 ELSE [pushed EXCEPT !.list[pushed.index + 1].connected = TRUE]

\* Input::interaction_profile_changed on the device list: the left hand,
\* then the right hand.
update_controllers(list, profiles) ==
    LET left == hand_profile_changed(list, "left", profiles["left"])
        right == hand_profile_changed(left.list, "right", profiles["right"])
    IN  [list |-> right.list,
         err |-> IF left.err /= "None" THEN left.err ELSE right.err]

\* OpenXrData::poll_events: an interaction-profile-changed event that waits
\* in the queue is taken out and handed to the input system.  Once the
\* manifest is loaded, a poll that follows a completed frame_start_update,
\* or is the first since the suggested profile changed, begins another
\* frame.
poll_events ==
    /\ Idle("app")
    /\ Idle("frame")
    /\ LET changed == IF session_data.profile_event
                      THEN update_controllers(session_data.devices,
                                              session_data.current_profile)
                      ELSE [list |-> session_data.devices, err |-> "None"]
           begins == session_data.frames = 0 \/ ret.op = "frame_start_update"
       IN  /\ session_data' =
                  [session_data EXCEPT
                      !.devices = changed.list,
                      !.profile_event = FALSE,
                      !.frames = IF get_loaded_actions(session_data) /\ begins
                                    /\ @ < MaxFrames
                                 THEN @ + 1 ELSE @]
           /\ ret' = [NoRet EXCEPT !.op = "poll_events", !.err = changed.err,
                                   !.ok = (changed.err = "None")]
    /\ UNCHANGED <<handle_vars, loaded_actions_path, panicked, pc, remembered,
                   legacy_vars>>
    /\ UNCHANGED <<bind_vars, pose_vars>>

\* The session's generic trackers are enumerated anew.
CreateMonadoGenericTrackers(has_extension, xdevs) ==
    /\ Idle("app")
    /\ Idle("frame")
    /\ session_data' =
           [session_data EXCEPT
               !.devices = create_monado_generic_trackers(@, has_extension, xdevs)]
    /\ ret' = [NoRet EXCEPT !.op = "create_monado_generic_trackers",
                            !.index = Len(xdevs), !.ok = has_extension]
    /\ UNCHANGED <<handle_vars, loaded_actions_path, panicked, pc, remembered,
                   legacy_vars>>
    /\ UNCHANGED <<bind_vars, pose_vars>>

\* Input::is_device_connected
is_device_connected(list, index) == get_device(list, index).connected

\* IVRSystem::IsTrackedDeviceConnected
IsTrackedDeviceConnected(list, device_index) ==
    IF device_index = 0 THEN TRUE ELSE is_device_connected(list, device_index)

\* Properties an application asks for: some that are modelled for one
\* class of device or another, and one that is modelled for none.
Props == {"ControllerType_String", "SerialNumber_String", "Axis0Type_Int32",
          "SupportedButtons_Uint64", "DisplayFrequency_Float", "WillDriftInYaw_Bool"}

\* Option of a property lookup: None, and Some of a number or of a text.
NoValue == [some |-> FALSE, value |-> 0, text |-> NoText]
SomeValue(value) == [some |-> TRUE, value |-> value, text |-> NoText]
SomeText(text) == [some |-> TRUE, value |-> Len(text), text |-> text]

\* ProfileProperties of the interaction profiles (input/profiles): a text
\* is named by the profile and the field it is read from, and by the hand
\* when the two hands differ in it.
ProfileText(profile, field, hand) == SomeText(<<profile, field, hand>>)

\* EVRControllerAxisType::Joystick: both profiles have a thumbstick.
Joystick == 2

\* ProfileProperties::legacy_buttons_mask, as the number of buttons in it
\* (the masks have bits beyond the 32nd).
legacy_buttons_mask(profile) == IF profile = "Touch" THEN 7 ELSE 5

\* TrackedDevice::get_string_property
get_string_property(device, property) ==
    LET hand == IF device.device_type.kind = "Controller"
                THEN device.device_type.hand ELSE "left"
        profile == device.interaction_profile
    IN  IF profile = "none" THEN NoValue
        ELSE CASE property = "ControllerType_String" ->
                      ProfileText(profile, "openvr_controller_type", "both")
               [] property = "SerialNumber_String" ->
                      (CASE device.device_type.kind = "Controller" ->
                                ProfileText(profile, "serial_number", hand)
                         [] device.device_type.kind = "GenericTracker" ->
                                SomeText(<<"serial", device.device_type.serial>>)
                         [] OTHER -> NoValue)
               [] OTHER -> NoValue

\* TrackedDevice::get_int_property
get_int_property(device, property) ==
    IF device.device_type.kind /= "Controller" \/ device.interaction_profile = "none"
    THEN NoValue
    ELSE IF property = "Axis0Type_Int32" THEN SomeValue(Joystick) ELSE NoValue

\* TrackedDevice::get_uint_property
get_uint_property(device, property) ==
    IF device.device_type.kind /= "Controller" \/ device.interaction_profile = "none"
    THEN NoValue
    ELSE IF property = "SupportedButtons_Uint64"
         THEN SomeValue(legacy_buttons_mask(device.interaction_profile))
         ELSE NoValue

\* Input::get_device_string_tracked_property and its int and uint siblings:
\* nothing for an index past the end of the list.
get_device_tracked_property(getter(_, _), list, index, property) ==
    IF index >= Len(list) THEN NoValue ELSE getter(get_device(list, index), property)

\* Error codes the caller's error variable may hold before the call.
PriorErrors == {"Success", "WrongDataType"}

\* Buffer sizes an application passes to the string getter: no buffer, and
\* one large enough for every text.
BufferSizes == {0, 64}

\* IVRSystem::GetStringTrackedDeviceProperty
GetStringTrackedDeviceProperty(list, device_index, prop, size) ==
    IF ~IsTrackedDeviceConnected(list, device_index)
    THEN PropResult("InvalidDevice", 0, NoText)
    ELSE LET data == IF device_index = 0
                     THEN IF prop \in {"SerialNumber_String", "ManufacturerName_String",
                                       "ControllerType_String"}
                          THEN SomeText(<<"<unknown>">>) ELSE NoValue
                     ELSE get_device_tracked_property(get_string_property, list,
                                                      device_index, prop)
         IN  IF ~data.some THEN PropResult("UnknownProperty", 0, NoText)
             ELSE IF size < data.value THEN PropResult("BufferTooSmall", data.value, NoText)
             ELSE PropResult("Success", data.value, data.text)

\* IVRSystem::GetUint64TrackedDeviceProperty
GetUint64TrackedDeviceProperty(list, device_index, prop) ==
    IF ~IsTrackedDeviceConnected(list, device_index)
    THEN PropResult("InvalidDevice", 0, NoText)
    ELSE LET value == get_device_tracked_property(get_uint_property, list,
                                                  device_index, prop)
         IN  IF ~value.some THEN PropResult("UnknownProperty", 0, NoText)
             ELSE PropResult("Success", value.value, NoText)

\* IVRSystem::GetInt32TrackedDeviceProperty
GetInt32TrackedDeviceProperty(list, device_index, prop) ==
    IF ~IsTrackedDeviceConnected(list, device_index)
    THEN PropResult("InvalidDevice", 0, NoText)
    ELSE LET value == get_device_tracked_property(get_int_property, list,
                                                  device_index, prop)
         IN  IF ~value.some THEN PropResult("UnknownProperty", 0, NoText)
             ELSE PropResult("Success", value.value, NoText)

\* The refresh rate the runtime reports: 90 Hz.
RefreshRate == 90000

\* IVRSystem::GetFloatTrackedDeviceProperty: the error variable is written
\* on the failing paths only.
GetFloatTrackedDeviceProperty(device_index, prop, prior) ==
    IF device_index /= 0 THEN PropResult("UnknownProperty", 0, NoText)
    ELSE IF prop = "DisplayFrequency_Float" THEN PropResult(prior, RefreshRate, NoText)
    ELSE PropResult("UnknownProperty", 0, NoText)

\* The typed getters.
PropertyGetters == {"String", "Int32", "Uint64", "Float"}

\* An application reads a property of a device through one of the getters.
GetTrackedDeviceProperty(getter, device_index, prop, size, prior) ==
    /\ Idle("app")
    /\ LET list == session_data.devices
           result ==
               CASE getter = "String" ->
                        GetStringTrackedDeviceProperty(list, device_index, prop, size)
                 [] getter = "Int32" ->
                        GetInt32TrackedDeviceProperty(list, device_index, prop)
                 [] getter = "Uint64" ->
                        GetUint64TrackedDeviceProperty(list, device_index, prop)
                 [] OTHER ->
                        GetFloatTrackedDeviceProperty(device_index, prop, prior)
       IN  ret' = [NoRet EXCEPT !.op = getter, !.name = <<prop>>, !.index = device_index,
                                !.ok = IsTrackedDeviceConnected(list, device_index),
                                !.prop = result]
    /\ UNCHANGED <<handle_vars, loaded_actions_path, session_data, panicked, pc,
                   remembered, legacy_vars>>
    /\ UNCHANGED <<bind_vars, pose_vars>>

----------------------------------------------------------------------------
(* Order and capacity of the tracked-device table                          *)

\* A legacy application whose controllers are switched on and off while
\* frames start and whose runtime lists external devices.
NextTable ==
    \/ frame_start_update_begin("app")
    \/ poll_events
    \/ \E h \in Hands, p \in {"none", "Touch"} : XrSetInteractionProfile(h, p)
    \/ \E e \in BOOLEAN, x \in XDevLists : CreateMonadoGenericTrackers(e, x)

SpecTable == InitRace /\ [][NextTable]_vars

\* Device indices of the devices of one kind in the table.
IndicesOf(list, kind) == {i - 1 : i \in {j \in 1..Len(list) : list[j].device_type.kind = kind}}

\* C22: in every reachable state of the tracked-device table index 0 is
\* the HMD, the left controller, when present, is at index 1, the right
\* controller, when present, is at index 2, and every generic tracker has
\* an index of 3 or more.
C22_FixedIndices ==
    LET list == session_data.devices
    IN  /\ IndicesOf(list, "Hmd") = {0}
        /\ find_controller_index(list, "left") \in {NoIndex, 1}
        /\ find_controller_index(list, "right") \in {NoIndex, 2}
        /\ \A i \in IndicesOf(list, "GenericTracker") : i >= 3

\* What does hold of the order: the HMD is the only device at index 0,
\* each hand has at most one controller, and devices keep the order in
\* which they were detected.
HmdFirstAndOneControllerPerHand ==
    LET list == session_data.devices
    IN  /\ IndicesOf(list, "Hmd") = {0}
        /\ \A h \in Hands :
              Cardinality({i \in IndicesOf(list, "Controller") :
                              get_device(list, i).device_type.hand = h}) <= 1

\* A tracker was enumerated before any controller was detected.
TrackerBelowThree ==
    \E i \in IndicesOf(session_data.devices, "GenericTracker") : i < 3

\* The right controller was detected before the left one.
RightControllerFirst ==
    /\ find_controller_index(session_data.devices, "right") = 1
    /\ find_controller_index(session_data.devices, "left") = 2

----------------------------------------------------------------------------
(* Capacity of the tracked-device table                                    *)

\* The hands the runtime has a profile for that have no device yet.
HandsToPush(data) ==
    {h \in Hands : /\ data.current_profile[h] /= "none"
                   /\ find_controller_index(data.devices, h) = NoIndex}

C23_Step ==
    LET list == session_data.devices
        after == session_data'.devices
        kinds(l) == [i \in 1..Len(l) |-> l[i].device_type]
    IN  /\ Len(after) <= k_unMaxTrackedDeviceCount
        /\ ret'.op = "create_monado_generic_trackers" /\ ret' /= ret
              => /\ Cardinality(IndicesOf(after, "GenericTracker"))
                       <= k_unMaxTrackedDeviceCount
                            - Cardinality(IndicesOf(after, "Hmd") \cup
                                          IndicesOf(after, "Controller"))
                 /\ SelectSeq(kinds(after), LAMBDA t : t.kind /= "GenericTracker")
                       = SelectSeq(kinds(list), LAMBDA t : t.kind /= "GenericTracker")
        /\ (/\ ret'.op = "poll_events"
            /\ Len(list) = k_unMaxTrackedDeviceCount
            /\ session_data.profile_event)
              => /\ kinds(after) = kinds(list)
                 /\ (HandsToPush(session_data) /= {}
                        <=> ret'.err = "MaxCapacityReached")
        /\ ret'.op = "poll_events" /\ ret'.err = "MaxCapacityReached"
              => Len(after) = k_unMaxTrackedDeviceCount

\* C23: the tracked-device table never holds more than
\* MaxTrackedDeviceCount devices: an enumeration leaves the other devices
\* in place and adds at most as many trackers as fit beside them, and a
\* push into a full table fails with MaxCapacityReached and leaves the
\* devices of the table as they were.
C23_TableCapacity == [][C23_Step]_vars

\* A controller was detected while the HMD and the enumerated trackers
\* filled the table: the push failed.
C23_Witness ==
    /\ ret.op = "poll_events"
    /\ ret.err = "MaxCapacityReached"
    /\ Len(session_data.devices) = k_unMaxTrackedDeviceCount
    /\ Cardinality(IndicesOf(session_data.devices, "GenericTracker"))
          = k_unMaxTrackedDeviceCount - 1

----------------------------------------------------------------------------
(* Errors of the tracked-device property getters (system.rs)               *)

\* An application that asks for properties of devices while the left
\* controller is switched on and off and a tracker may be listed.
NextProps ==
    \/ frame_start_update_begin("app")
    \/ poll_events
    \/ \E p \in {"none", "Touch"} : XrSetInteractionProfile("left", p)
    \/ CreateMonadoGenericTrackers(TRUE, <<XDev(<<"T">>, TRUE, 1)>>)
    \/ \E g \in PropertyGetters, d \in DeviceIndices, p \in Props,
          size \in BufferSizes, prior \in PriorErrors :
          GetTrackedDeviceProperty(g, d, p, size, prior)

SpecProps == InitRace /\ [][NextProps]_vars

\* The last call was a property getter asked about a device that is not
\* connected.
ReadOfDisconnected == ret.op \in PropertyGetters /\ ~ret.ok

\* The last call was a property getter that found nothing for the property
\* on a connected device.
ReadOfUnmodelled ==
    /\ ret.op \in PropertyGetters
    /\ ret.ok
    /\ ret.prop.error \notin {"Success", "BufferTooSmall"} \cup PriorErrors

\* C29: every typed property getter answers a device index that is not
\* connected with InvalidDevice, and a connected device asked for a
\* property it does not model with UnknownProperty, returning the zero or
\* empty value in both cases.
C29_PropertyErrors ==
    /\ ReadOfDisconnected
          => ret.prop = PropResult("InvalidDevice", 0, NoText)
    /\ ReadOfUnmodelled
          => ret.prop = PropResult("UnknownProperty", 0, NoText)

\* The same for the string, int32 and uint64 getters alone, which check the
\* connection first; the float getter answers every device but the HMD
\* with UnknownProperty.
PropertyErrorsButFloat ==
    /\ ret.op /= "Float" => C29_PropertyErrors
    /\ ret.op = "Float" /\ ret.index /= 0
          => ret.prop = PropResult("UnknownProperty", 0, NoText)

\* The float getter was asked about a device index that is not connected
\* and answered UnknownProperty.
FloatOfDisconnected ==
    /\ ret.op = "Float"
    /\ ~ret.ok
    /\ ret.prop.error = "UnknownProperty"

----------------------------------------------------------------------------
(* Detection of a controller after the manifest is loaded                  *)

\* An application that loads its manifest and runs its frames (poll_events,
\* then frame_start_update) without ever calling UpdateActionState, while
\* controllers are switched on and off.
NextDetect ==
    \/ SessionStep
    \/ poll_events
    \/ \E h \in Hands, p \in {"none", "Touch"} : XrSetInteractionProfile(h, p)

SpecDetect == Init /\ [][NextDetect]_vars

\* Frames (poll_events, then frame_start_update) the session has completed
\* with its manifest loaded since the suggested profile last changed.
FramesCompleted ==
    IF ret.op = "frame_start_update" THEN session_data.frames
    ELSE IF session_data.frames > 0 THEN session_data.frames - 1
    ELSE 0

\* The hand has a device index, and the device at it reports connected.
Detected(data, hand) ==
    /\ find_controller_index(data.devices, hand) /= NoIndex
    /\ is_device_connected(data.devices, find_controller_index(data.devices, hand))

\* C25: with a manifest loaded and no UpdateActionState call, a hand whose
\* interaction profile became bound has, by the end of the second frame
\* after the change, a device index that reports connected.
C25_DetectedBySecondFrame ==
    \A h \in Hands :
        /\ get_loaded_actions(session_data)
        /\ session_data.suggested_profile[h] /= "none"
        /\ FramesCompleted >= 2
        => Detected(session_data, h)

IndexOnlyFromPollEvents_Step ==
    \A h \in Hands :
        /\ find_controller_index(session_data.devices, h) = NoIndex
        /\ find_controller_index(session_data'.devices, h) /= NoIndex
        => /\ ret'.op = "poll_events"
           /\ session_data.profile_event
           /\ session_data.current_profile[h] /= "none"

\* A hand gets its device index only when poll_events processes the
\* profile-changed event of a session in which the hand has a profile.
IndexOnlyFromPollEvents == [][IndexOnlyFromPollEvents_Step]_vars

\* Two frames went by after the left controller was switched on, with the
\* manifest loaded, and the left hand still has no device.
UndetectedAfterTwoFrames ==
    /\ get_loaded_actions(session_data)
    /\ session_data.suggested_profile["left"] /= "none"
    /\ FramesCompleted >= 2
    /\ find_controller_index(session_data.devices, "left") = NoIndex

\* A legacy session, whose frames do sync, detects the controller.
DetectedWithoutManifest ==
    /\ ~get_loaded_actions(session_data)
    /\ Detected(session_data, "left")

----------------------------------------------------------------------------
(* Legacy haptics (input/legacy.rs)                                        *)

\* A vibration applied to a haptic action for a hand.
Vibration(action, hand) == <<action, hand>>

\* The haptic action of the legacy set.
LegacyHaptic == <<"xrizer-legacy-set", "haptic">>

\* ActionData::Haptic among the loaded actions.
is_haptic_action(idx) ==
    \E i \in 1..Len(ManifestHaptics) : action_map[idx] = to_lowercase(ManifestHaptics[i])

\* A search that takes the haptic action the manifest declares first.
first_declared_haptic(loaded) == to_lowercase(ManifestHaptics[1])

\* manifest_actions.actions.iter().find_map(ActionData::Haptic): the
\* secondary map is gone through in the order of the keys; <<>> if none.
find_haptic_action(loaded) ==
    LET haptics == {i \in loaded.actions : is_haptic_action(i)}
    IN  IF haptics = {} THEN <<>>
        ELSE action_map[CHOOSE i \in haptics : \A j \in haptics : i <= j]

\* Input::legacy_haptic_via_manifest
legacy_haptic_via_manifest(loaded, hand) ==
    LET haptic_action == find_haptic_action(loaded)
    IN  IF haptic_action = <<>> THEN {} ELSE {Vibration(haptic_action, hand)}

\* Input::legacy_haptic (IVRSystem::TriggerHapticPulse)
legacy_haptic(device_index) ==
    /\ Idle("app")
    /\ LET hand == device_index_to_hand(device_index)
           applied ==
               IF hand = "none" THEN {}
               ELSE IF get_loaded_actions(session_data)
               THEN legacy_haptic_via_manifest(session_data.loaded_actions, hand)
               ELSE IF ~get_legacy_actions(session_data) THEN {}
               ELSE {Vibration(LegacyHaptic, hand)}
       IN  ret' = [NoRet EXCEPT !.op = "legacy_haptic", !.index = device_index,
                                !.hand = hand, !.ok = (applied /= {}),
                                !.haptic = applied]
    /\ UNCHANGED <<handle_vars, loaded_actions_path, session_data, panicked, pc,
                   remembered, legacy_vars>>
    /\ UNCHANGED <<bind_vars, pose_vars>>

\* An application that asks for handles, loads its manifest or stays with
\* the legacy input, and triggers haptic pulses on device indices.
NextHaptic ==
    \/ SessionStep
    \/ \E n \in {ManifestActions[i] : i \in 1..Len(ManifestActions)} : GetActionHandle(n)
    \/ \E d \in DeviceIndices : legacy_haptic(d)

SpecHaptic == Init /\ [][NextHaptic]_vars

\* C26: legacy_haptic for a valid controller index vibrates exactly one
\* action on that controller's hand: with a manifest loaded the first
\* haptic action the manifest declares and never the legacy haptic action,
\* without a manifest and with the legacy set attached the legacy haptic
\* action; for an index that is no controller it vibrates nothing.
C26_HapticTarget ==
    ret.op = "legacy_haptic" =>
        IF device_index_to_hand(ret.index) = "none" THEN ret.haptic = {}
        ELSE IF get_loaded_actions(session_data)
        THEN ret.haptic = {Vibration(to_lowercase(ManifestHaptics[1]),
                                     device_index_to_hand(ret.index))}
        ELSE get_legacy_actions(session_data)
                => ret.haptic = {Vibration(LegacyHaptic, device_index_to_hand(ret.index))}

\* What does hold: at most one action vibrates, on the hand of the device;
\* with a manifest loaded it is one of the manifest's haptic actions, the
\* one with the lowest handle, and never the legacy one.
HapticOnLowestHandle ==
    ret.op = "legacy_haptic" =>
        /\ Cardinality(ret.haptic) <= 1
        /\ \A v \in ret.haptic : v[2] = device_index_to_hand(ret.index)
        /\ device_index_to_hand(ret.index) = "none" => ret.haptic = {}
        /\ get_loaded_actions(session_data) /\ device_index_to_hand(ret.index) /= "none"
              => /\ ret.haptic /= {}
                 /\ \A v \in ret.haptic :
                       /\ v[1] /= LegacyHaptic
                       /\ \E i \in 1..Len(ManifestHaptics) :
                             /\ v[1] = to_lowercase(ManifestHaptics[i])
                             /\ \A j \in 1..Len(ManifestHaptics) :
                                   slot_find(action_map, v[1])
                                      <= slot_find(action_map, to_lowercase(ManifestHaptics[j]))

\* The pulse went to the haptic action the manifest declares second, whose
\* handle the application had asked for before it loaded the manifest.
HapticOnSecondDeclared ==
    /\ ret.op = "legacy_haptic"
    /\ get_loaded_actions(session_data)
    /\ ret.haptic = {Vibration(to_lowercase(ManifestHaptics[2]), "left")}

----------------------------------------------------------------------------
(* Evaluators of both hands (input/custom_bindings.rs)                     *)

OtherHand(hand) == IF hand = "left" THEN "right" ELSE "left"

\* What the source of a hand can report for each kind of binding: nothing,
\* and values on either side of what the kind compares against.
HandInputs(kind) ==
    {NoBindInput} \cup
    CASE kind = "Toggle" -> {BindInput(TRUE, c, 0, 0, FALSE) : c \in BOOLEAN}
      [] kind = "Grab" -> {BindInput(TRUE, FALSE, 0, v, FALSE) : v \in {600, 1000}}
      [] kind = "Threshold" -> {BindInput(TRUE, FALSE, 0, v, FALSE) : v \in {100, 500}}
      [] OTHER -> {DpadInput(TRUE, 400, 0, 500), DpadInput(TRUE, 400, 500, 0)}

\* The user moves the input source of one hand.
XrHandInput(hand, input) ==
    /\ input /= session_data.hand_sources[hand].input
    /\ session_data' = [session_data EXCEPT !.hand_sources[hand].input = input]
    /\ UNCHANGED <<handle_vars, loaded_actions_path, panicked, pc,
                   ret, remembered, legacy_vars>>
    /\ UNCHANGED <<bind_vars, pose_vars>>

\* What an evaluator's state gives: the Option it returns and the evaluator
\* as the call leaves it.
StateOf(some, state, self) == [some |-> some, state |-> state, self |-> self]

\* An evaluator that answers for whichever hand it is asked about.
BindingData_state_any_hand(self, sources, subaction_path) ==
    LET fresh == BindingType_state(binding_kind, self.ty_last_state,
                                   sources[subaction_path].bind_state)
    IN  IF self.last_state.synced
        THEN StateOf(self.last_state.some, self.last_state.state, self)
        ELSE StateOf(fresh.some, fresh.state,
                     [self EXCEPT !.ty_last_state = fresh.last_state,
                                  !.last_state = Synced(fresh.some, fresh.state)])

\* An evaluator that keeps no memo: every read runs its BindingType.
BindingData_state_unmemoized(self, sources, subaction_path) ==
    LET fresh == BindingType_state(binding_kind, self.ty_last_state,
                                   sources[subaction_path].bind_state)
    IN  IF self.hand /= subaction_path
        THEN StateOf(FALSE, Inactive, self)
        ELSE StateOf(fresh.some, fresh.state,
                     [self EXCEPT !.ty_last_state = fresh.last_state,
                                  !.last_state = Synced(fresh.some, fresh.state)])

\* BindingData::state of one evaluator for a hand, never xr::Path::NULL:
\* nothing for a hand the evaluator was not created for; the memo when the
\* evaluator was read since the last sync; else its BindingType's result
\* on the source of that hand, which becomes the memo.
BindingData_state_of(self, sources, subaction_path) ==
    LET fresh == BindingType_state(binding_kind, self.ty_last_state,
                                   sources[subaction_path].bind_state)
    IN  IF self.hand /= subaction_path
        THEN StateOf(FALSE, Inactive, self)
        ELSE IF self.last_state.synced
        THEN StateOf(self.last_state.some, self.last_state.state, self)
        ELSE StateOf(fresh.some, fresh.state,
                     [self EXCEPT !.ty_last_state = fresh.last_state,
                                  !.last_state = Synced(fresh.some, fresh.state)])

\* The boolean an action bound to nothing but the evaluators shows for a
\* hand: every evaluator is asked for that hand, and what they give is
\* or-ed.  Gives the state and the evaluators as the read leaves them.
bindings_state(data, subaction_path) ==
    LET read == [h \in Hands |->
                    BindingData_state_of(data.hand_bindings[h], data.hand_sources,
                                         subaction_path)]
        given == {h \in Hands : read[h].some}
    IN  [state |-> ActionState(\E h \in given : read[h].state.is_active,
                               \E h \in given : read[h].state.current_state,
                               \E h \in given : read[h].state.changed_since_last_sync),
         hand_bindings |-> [h \in Hands |-> read[h].self]]

\* The haptic action of the dpad's parent.
DpadHaptic == <<"dpad", "haptic">>

\* DpadData::state applies a pulse to the hand when its latch goes from
\* out of bounds to in bounds.
dpad_haptic(before, after) ==
    {Vibration(DpadHaptic, h) :
        h \in {h \in Hands : /\ binding_kind = "Dpad"
                              /\ ~before[h].ty_last_state
                              /\ after[h].ty_last_state}}

\* Fixture::get_bool_state_hand on the action: GetDigitalActionData
\* restricted to the input source of one hand.
get_bool_state_hand(subaction_path) ==
    /\ Idle("app")
    /\ get_loaded_actions(session_data)
    /\ LET read == bindings_state(session_data, subaction_path)
       IN  /\ ret' = [RetData("get_bool_state_hand", InvalidHandle, subaction_path,
                              "None", DigitalData(read.state))
                         EXCEPT !.haptic = dpad_haptic(session_data.hand_bindings,
                                                       read.hand_bindings)]
           /\ session_data' = [session_data EXCEPT !.hand_bindings = read.hand_bindings]
    /\ UNCHANGED <<handle_vars, loaded_actions_path, panicked, pc,
                   remembered, legacy_vars>>
    /\ UNCHANGED <<bind_vars, pose_vars>>

InitHands ==
    /\ Input_new(SessionData(FALSE), NoRet)
    /\ binding_kind \in CustomKinds
    /\ binding_params = NoParams

\* An application that loads its manifest, syncs and reads the action for
\* either hand while the user moves the sources of both hands.
NextHands ==
    \/ SetActionManifestPath_begin
    \/ SetActionManifestPath_load
    \/ UpdateActionState(<<as_ffi(KeyAt(1))>>)
    \/ \E h \in Hands : \E input \in HandInputs(binding_kind) : XrHandInput(h, input)
    \/ \E h \in Hands : get_bool_state_hand(h)

SpecHands == InitHands /\ [][NextHands]_vars

\* The session with the source and the evaluator of one hand replaced.
WithHand(data, hand, source, latch, memo) ==
    [data EXCEPT !.hand_sources[hand].bind_state = source,
                 !.hand_bindings[hand].ty_last_state = latch,
                 !.hand_bindings[hand].last_state = memo]

\* States of a source as of a sync: every input, changed or not.
SyncedSources ==
    {[input |-> input, click_changed |-> changed, native_changed |-> FALSE] :
        input \in HandInputs(binding_kind), changed \in BOOLEAN}

\* The step is a read of the action restricted to the hand.
ReadsHand(hand) ==
    /\ get_loaded_actions(session_data)
    /\ ret'.op = "get_bool_state_hand"
    /\ ret'.hand = hand
    /\ session_data'.hand_sources = session_data.hand_sources

\* What C21 says of one step.
C21_Step ==
    \A hand \in Hands :
        ReadsHand(hand) =>
            /\ session_data'.hand_bindings[OtherHand(hand)]
                  = session_data.hand_bindings[OtherHand(hand)]
            /\ \A source \in SyncedSources, latch \in BOOLEAN :
               \A memo \in {Unsynced,
                             session_data.hand_bindings[OtherHand(hand)].last_state} :
                  LET other == bindings_state(WithHand(session_data, OtherHand(hand),
                                                       source, latch, memo), hand)
                  IN  /\ ret'.data = DigitalData(other.state)
                      /\ session_data'.hand_bindings[hand] = other.hand_bindings[hand]

----------------------------------------------------------------------------
(* Bindings of a binding file (input/action_manifest/helpers.rs)           *)

\* Most sources a binding file of the model has.
MaxSources == 2

\* ActionData of a manifest action, by its path: the first action is a
\* boolean, the second a vector1, the others vibrations; nothing for a path
\* the manifest does not declare.
ActionData_kind(action_path) ==
    CASE action_path = ManifestActions[1] -> "Bool"
      [] action_path = ManifestActions[2] -> "Vector1"
      [] action_path \in {ManifestHaptics[i] : i \in 1..Len(ManifestHaptics)} -> "Haptic"
      [] OTHER -> "none"

\* What a binding file can name as the output of a source, and the kinds
\* of input path it can bind it to.
UndeclaredAction == <<"s", "u">>
SourceActions == {ManifestActions[1], ManifestActions[2], UndeclaredAction}
InputKinds == {"bool", "float", "v2"}

\* All binding files of up to MaxSources sources.
BindingFiles ==
    UNION {[1..n -> SourceActions \X InputKinds] : n \in 0..MaxSources}

\* find_action
find_action(name) == ActionData_kind(name) /= "none"

\* The pattern try_get_bool_binding, try_get_float_binding and
\* try_get_v2_binding hand to action_match!.
action_pattern(input_kind) ==
    CASE input_kind = "bool" -> {"Bool", "Vector1"}
      [] input_kind = "float" -> {"Vector1"}
      [] OTHER -> {"Vector2"}

\* ActionPattern::check_match: the assert! of action_match! holds.
check_match(input_kind, action_path) ==
    ActionData_kind(action_path) \in action_pattern(input_kind)

\* A check that lets a mismatching pair through to the skip.
try_get_binding_skips(context, action_path, input_kind) ==
    [context |-> [context EXCEPT
                     !.handled = @ + 1,
                     !.bindings = IF find_action(action_path)
                                     /\ check_match(input_kind, action_path)
                                  THEN Append(@, <<action_path, input_kind>>) ELSE @],
     panic |-> FALSE]

\* BindingsProfileLoadContext::try_get_binding: an undeclared action is
\* skipped with a warning; a declared one is checked against the pattern
\* by an assert!, and pushed.
try_get_binding(context, action_path, input_kind) ==
    IF ~find_action(action_path)
    THEN [context |-> [context EXCEPT !.handled = @ + 1], panic |-> FALSE]
    ELSE IF ~check_match(input_kind, action_path)
    THEN [context |-> context, panic |-> TRUE]
    ELSE [context |-> [context EXCEPT !.handled = @ + 1,
                                      !.bindings = Append(@, <<action_path, input_kind>>)],
          panic |-> FALSE]

\* The load handles the next source of the binding file.
handle_source ==
    /\ Idle("app") /\ ~panicked
    /\ LET context == session_data.load_context
       IN  /\ context.handled < Len(context.sources)
           /\ LET source == context.sources[context.handled + 1]
                  got == try_get_binding(context, source[1], source[2])
              IN  /\ session_data' = [session_data EXCEPT !.load_context = got.context]
                  /\ panicked' = got.panic
                  /\ ret' = [NoRet EXCEPT !.op = "handle_source", !.name = source[1],
                                          !.ok = ~got.panic]
    /\ UNCHANGED <<handle_vars, loaded_actions_path, pc, remembered, legacy_vars>>
    /\ UNCHANGED <<bind_vars, pose_vars>>

\* The load has walked the binding file and returns.
finish_load ==
    /\ Idle("app") /\ ~panicked
    /\ session_data.load_context.handled = Len(session_data.load_context.sources)
    /\ ret.op /= "load_action_manifest"
    /\ ret' = [NoRet EXCEPT !.op = "load_action_manifest", !.ok = TRUE]
    /\ UNCHANGED <<handle_vars, loaded_actions_path, session_data, panicked, pc,
                   remembered, legacy_vars>>
    /\ UNCHANGED <<bind_vars, pose_vars>>

\* A load that is about to walk some binding file.
InitLoad ==
    /\ \E file \in BindingFiles :
          Input_new([SessionData(TRUE) EXCEPT !.load_context.sources = file], NoRet)
    /\ binding_kind = "direct"
    /\ binding_params = NoParams

NextLoad ==
    \/ handle_source
    \/ finish_load

SpecLoad == InitLoad /\ [][NextLoad]_vars

\* The sources handled so far.
HandledSources ==
    SubSeq(session_data.load_context.sources, 1, session_data.load_context.handled)

\* The source names a declared action whose kind the input path cannot
\* take.
Mismatch(source) == find_action(source[1]) /\ ~check_match(source[2], source[1])

Suggestable(source) == find_action(source[1]) /\ check_match(source[2], source[1])

\* C31: a source whose action has a kind the input path does not take is
\* skipped: the load goes on and returns success, the bindings suggested
\* are the other sources handled so far, in order, and none of them is a
\* mismatching pair.
C31_MismatchSkipped ==
    /\ ~panicked
    /\ session_data.load_context.bindings = SelectSeq(HandledSources, Suggestable)
    /\ (ret.op = "handle_source" /\ Mismatch(HandledSources[Len(HandledSources)]))
          => ret.ok

\* What does hold: the bindings suggested are the matching sources handled
\* so far, a source whose action the manifest does not declare is skipped,
\* and the load panics exactly at a mismatching source, which is never
\* counted as handled.
MismatchPanics ==
    LET context == session_data.load_context
    IN  /\ context.bindings = SelectSeq(HandledSources, Suggestable)
        /\ \A i \in 1..context.handled : ~Mismatch(context.sources[i])
        /\ panicked <=> /\ context.handled < Len(context.sources)
                        /\ Mismatch(context.sources[context.handled + 1])
                        /\ ret.op = "handle_source"
                        /\ ~ret.ok
        /\ ret.op = "load_action_manifest" =>
              /\ ret.ok
              /\ context.handled = Len(context.sources)

\* The load panicked at a boolean action bound to a vector2 input after it
\* had suggested a binding.
PanickedAtMismatch ==
    /\ panicked
    /\ Len(session_data.load_context.bindings) = 1
    /\ session_data.load_context.sources[2] = <<ManifestActions[1], "v2">>

----------------------------------------------------------------------------
(* Skeletal tracking level (input.rs)                                      *)

\* Interaction profiles of the controllers a hand can hold while its
\* skeleton is read; Knuckles is the one with finger tracking.
SkeletonProfiles == {"none", "Touch", "Knuckles"}

\* The runtime starts or stops tracking a hand.
XrHandTracking(hand, active) ==
    /\ session_data.hand_tracker[hand] /= active
    /\ session_data' = [session_data EXCEPT !.hand_tracker[hand] = active]
    /\ UNCHANGED <<handle_vars, loaded_actions_path, panicked, pc, ret, remembered,
                   legacy_vars>>
    /\ UNCHANGED <<bind_vars, pose_vars>>

\* A tracking level that looks at the hand tracker and at the controller.
level_by_tracker_and_controller(data, hand) ==
    IF data.hand_tracker[hand] THEN "Full"
    ELSE IF data.current_profile[hand] = "Knuckles" THEN "Partial"
    ELSE "Estimated"

\* The level IVRInput::GetSkeletalTrackingLevel writes.
skeletal_tracking_level(data, hand) == "Partial"

\* IVRInput::GetSkeletalTrackingLevel for the skeleton action of a hand:
\* the handle is not looked at.
GetSkeletalTrackingLevel(hand) ==
    /\ Idle("app")
    /\ ret' = [NoRet EXCEPT !.op = "GetSkeletalTrackingLevel", !.hand = hand,
                            !.ok = TRUE,
                            !.level = skeletal_tracking_level(session_data, hand)]
    /\ ret' /= ret
    /\ UNCHANGED <<handle_vars, loaded_actions_path, session_data, panicked, pc,
                   remembered, legacy_vars>>
    /\ UNCHANGED <<bind_vars, pose_vars>>

\* An application that reads the tracking level of either hand's skeleton
\* while controllers are switched and hands come into and out of view.
NextSkeleton ==
    \/ SessionStep
    \/ UpdateActionState(<<as_ffi(KeyAt(1))>>)
    \/ \E h \in Hands, p \in SkeletonProfiles : XrSetInteractionProfile(h, p)
    \/ \E h \in Hands, active \in BOOLEAN : XrHandTracking(h, active)
    \/ \E h \in Hands : GetSkeletalTrackingLevel(h)

SpecSkeleton == Init /\ [][NextSkeleton]_vars

\* C32: GetSkeletalTrackingLevel reports Full when a hand tracker is active
\* for the action's hand, Partial when none is and the hand's controller is
\* Knuckles, and Estimated in every other case.
C32_TrackingLevel ==
    [][(ret'.op = "GetSkeletalTrackingLevel" /\ ret' /= ret) =>
          ret'.level = level_by_tracker_and_controller(session_data, ret'.hand)]_vars

\* What does hold: the call succeeds and the level is Partial, whatever the
\* hand tracker and the controller are.
LevelAlwaysPartial ==
    ret.op = "GetSkeletalTrackingLevel" => ret.ok /\ ret.level = "Partial"

\* Partial was reported for a hand whose hand tracker is active.
PartialWithHandTracker ==
    /\ ret.op = "GetSkeletalTrackingLevel"
    /\ ret.level = "Partial"
    /\ session_data.hand_tracker[ret.hand]
    /\ session_data.current_profile[ret.hand] = "Touch"

----------------------------------------------------------------------------
(* Attaching action sets, once per session                                 *)

\* C33: within one session action sets are attached at most once, over
\* every interleaving of frame_start_update, SetActionManifestPath and
\* post_session_restart: whoever needs to attach again restarts the session
\* first.
C33_AttachedOncePerSession == session_data.attach_calls <= 1

\* What does hold: with a single thread calling frame_start_update,
\* SetActionManifestPath and restart_session in any order, no session sees
\* a second attach and nothing panics.
AttachedOnceOneThread == session_data.attach_calls <= 1 /\ ~panicked

\* The frame thread attached the legacy set to the session the application
\* thread had restarted into and loaded its manifest on.
AttachedTwice ==
    /\ session_data.attach_calls = 2
    /\ get_loaded_actions(session_data)
    /\ pc["frame"] = "fsu_setup"
    /\ panicked

----------------------------------------------------------------------------
(* Handle getters called from several threads (input.rs)                   *)

HandleKinds == {"GetInputSourceHandle", "GetActionHandle", "GetActionSetHandle"}

\* The path the threads ask a handle for, one per getter, as spelled by
\* the caller.
RacedPath(kind) ==
    CASE kind = "GetInputSourceHandle" -> <<"/user/head">>
      [] kind = "GetActionHandle" -> ManifestActions[2]
      [] OTHER -> ManifestSets[1]

\* The name the getter looks up and inserts: the path itself for an input
\* source, the lower-cased path for an action or a set.
raced_key(kind) ==
    IF kind = "GetInputSourceHandle" THEN RacedPath(kind) ELSE name_key(RacedPath(kind))

handle_map(kind) ==
    CASE kind = "GetInputSourceHandle" -> input_source_map
      [] kind = "GetActionHandle" -> action_map
      [] OTHER -> set_map

\* Position of a thread that found no entry and dropped its read guard.
inserting(kind) ==
    CASE kind = "GetInputSourceHandle" -> "source_insert"
      [] kind = "GetActionHandle" -> "action_insert"
      [] OTHER -> "set_insert"

\* An insert that looks again once it holds the write lock.
insert_if_absent(map, name) == find_or_insert(map, name)

\* The None arm of the getters: the write lock is taken and the name is
\* inserted.
insert_under_write_lock(map, name) == slot_insert(map, name)

\* First half of a getter on thread `t`: the map is searched under the
\* read lock; a hit is returned, a miss drops the guard.
get_handle_find(t, kind) ==
    /\ pc[t] = "idle" /\ ~panicked
    /\ LET found == slot_find(handle_map(kind), raced_key(kind))
       IN  IF found /= 0
           THEN /\ ret' = Ret(kind, RacedPath(kind), as_ffi(KeyAt(found)), "None", TRUE)
                /\ ret' /= ret
                /\ UNCHANGED pc
           ELSE /\ pc' = [pc EXCEPT ![t] = inserting(kind)]
                /\ UNCHANGED ret
    /\ UNCHANGED <<handle_vars, loaded_actions_path, session_data, panicked,
                   remembered, legacy_vars>>
    /\ UNCHANGED <<bind_vars, pose_vars>>

\* Second half: the insert under the write lock, and the new key returned.
get_handle_insert(t, kind) ==
    /\ pc[t] = inserting(kind) /\ ~panicked
    /\ LET map == insert_under_write_lock(handle_map(kind), raced_key(kind))
           found == IF Len(map) > Len(handle_map(kind)) THEN Len(map)
                    ELSE slot_find(map, raced_key(kind))
       IN  /\ input_source_map' =
                  IF kind = "GetInputSourceHandle" THEN map ELSE input_source_map
           /\ action_map' = IF kind = "GetActionHandle" THEN map ELSE action_map
           /\ set_map' = IF kind = "GetActionSetHandle" THEN map ELSE set_map
           /\ ret' = Ret(kind, RacedPath(kind), as_ffi(KeyAt(found)), "None", TRUE)
    /\ pc' = [pc EXCEPT ![t] = "idle"]
    /\ UNCHANGED <<loaded_actions_path, session_data, panicked, remembered, legacy_vars>>
    /\ UNCHANGED <<bind_vars, pose_vars>>

\* A caller keeps the handle it was just given.
RememberHandle ==
    /\ ret.op \in HandleKinds
    /\ remembered /= ret
    /\ remembered' = ret
    /\ UNCHANGED <<handle_vars, loaded_actions_path, session_data, panicked, pc,
                   ret, legacy_vars>>
    /\ UNCHANGED <<bind_vars, pose_vars>>

InitGetters ==
    /\ Input_new(SessionData(FALSE), NoRet)
    /\ pc = [t \in Threads |-> "idle"]
    /\ binding_kind = "direct"
    /\ binding_params = NoParams

\* Two threads that ask for the handles of the same paths.
NextGetters ==
    \/ \E t \in Threads, kind \in HandleKinds : get_handle_find(t, kind)
    \/ \E t \in Threads, kind \in HandleKinds : get_handle_insert(t, kind)
    \/ RememberHandle

SpecGetters == InitGetters /\ [][NextGetters]_vars

\* Slots of the getter's map that hold the raced path.
EntriesOf(kind) ==
    {i \in 1..Len(handle_map(kind)) : handle_map(kind)[i] = raced_key(kind)}

\* C34: when several threads ask for the handle of the same path at the
\* same time, the path is inserted only if it is still absent once the
\* write lock is held: the map holds one entry per path and every caller
\* is given the same handle value.
C34_OneEntryPerPath ==
    /\ \A kind \in HandleKinds : Cardinality(EntriesOf(kind)) <= 1
    /\ (remembered.op = ret.op /\ ret.op \in HandleKinds) =>
          remembered.handle = ret.handle

\* What does hold: a path has at most one entry per thread, every caller
\* is given the handle of one of them, and a caller that starts after an
\* entry exists is given the first.
OneEntryPerThread ==
    \A kind \in HandleKinds :
        /\ Cardinality(EntriesOf(kind)) <= Cardinality(Threads)
        /\ ret.op = kind => from_ffi(ret.handle).idx \in EntriesOf(kind)

\* Two callers hold different handles of the same action path, and the map
\* has two entries for it.
TwoHandlesForOnePath ==
    /\ ret.op = "GetActionHandle"
    /\ remembered.op = "GetActionHandle"
    /\ remembered.handle /= ret.handle
    /\ Cardinality(EntriesOf("GetActionHandle")) = 2

----------------------------------------------------------------------------
(* One evaluation per sync (input/custom_bindings.rs)                      *)

\* The memo of a hand's evaluator as action data.
MemoData(binding) ==
    IF binding.last_state.some THEN DigitalData(binding.last_state.state) ELSE NoData

\* What C35 says of one step.
C35_Step ==
    \A hand \in Hands :
        LET before == session_data.hand_bindings[hand]
            after == session_data'.hand_bindings[hand]
        IN  /\ (ReadsHand(hand) /\ before.last_state.synced) =>
                  /\ after = before
                  /\ ret'.data = MemoData(before)
                  /\ ret'.haptic = {}
            /\ (ReadsHand(hand) /\ ~before.last_state.synced) =>
                  /\ after.last_state.synced
                  /\ ret'.data = MemoData(after)
            /\ (before.last_state.synced /\ ~after.last_state.synced) =>
                  ret'.op = "UpdateActionState"
            /\ after.ty_last_state /= before.ty_last_state =>
                  ReadsHand(hand) /\ ~before.last_state.synced

\* C35: between two unsyncs the latch-updating state function of an
\* evaluator runs at most once for its hand: it runs only when the memo is
\* empty and fills it, only a sync empties the memo, and every later read
\* returns the memo, changes no latch and applies no dpad pulse.
C35_OneEvaluationPerSync == [][C35_Step]_vars

\* A read of the left hand returned the memo of a dpad evaluation that had
\* gone in bounds: the state is reported as changed, and no pulse was
\* applied this time.
C35_Witness ==
    /\ binding_kind = "Dpad"
    /\ ret.op = "get_bool_state_hand"
    /\ ret.hand = "left"
    /\ ret.data.state
    /\ ret.data.changed
    /\ ret.haptic = {}
    /\ session_data.hand_bindings["left"].last_state.synced

\* A dpad evaluation applied its pulse.
DpadPulsed ==
    /\ ret.op = "get_bool_state_hand"
    /\ ret.haptic = {Vibration(DpadHaptic, "right")}

----------------------------------------------------------------------------
(* Memos and syncs (input.rs, input/custom_bindings.rs)                    *)

\* An application that loads its manifest, syncs with the UpdateActionState
\* of input.rs and reads the action for either hand while the user moves
\* the sources of both hands.
NextSync ==
    \/ SetActionManifestPath_begin
    \/ SetActionManifestPath_load
    \/ UpdateActionState_without_unsync(<<as_ffi(KeyAt(1))>>)
    \/ \E h \in Hands : \E input \in HandInputs(binding_kind) : XrHandInput(h, input)
    \/ \E h \in Hands : get_bool_state_hand(h)

SpecSync == InitHands /\ [][NextSync]_vars

\* The step syncs the session's actions.
Syncs == legacy_state'.packet_num /= legacy_state.packet_num

\* What the evaluator of a hand gives on the session's current snapshot
\* when it has no memo.
Evaluation(data, hand) ==
    LET fresh == BindingType_state(binding_kind, data.hand_bindings[hand].ty_last_state,
                                   data.hand_sources[hand].bind_state)
    IN  IF fresh.some THEN DigitalData(fresh.state) ELSE NoData

\* C36: every sync is preceded, in the same call, by the reset of every
\* evaluator's memo, so no memo outlives a sync, and the first read of an
\* evaluator after a sync is evaluated on the new snapshot.
C36_UnsyncBeforeSync ==
    [][/\ Syncs => \A h \in Hands : ~session_data'.hand_bindings[h].last_state.synced
       /\ \A h \in Hands :
             (ReadsHand(h) /\ ret.op = "UpdateActionState" /\ ret.ok) =>
                 ret'.data = Evaluation(session_data, h)]_vars

\* What does hold: a sync changes no evaluator, so a memo, once filled, is
\* what every later read of the hand returns, whatever is synced after.
MemoOutlivesSync ==
    [][/\ Syncs => session_data'.hand_bindings = session_data.hand_bindings
       /\ \A h \in Hands :
             (ReadsHand(h) /\ session_data.hand_bindings[h].last_state.synced) =>
                 /\ ret'.data = MemoData(session_data.hand_bindings[h])
                 /\ session_data'.hand_bindings = session_data.hand_bindings]_vars

\* After a sync in which the left source was pressed, the read of the left
\* hand still reports the released state memoized before that sync.
StaleMemoRead ==
    /\ binding_kind = "Toggle"
    /\ ret.op = "get_bool_state_hand"
    /\ ret.hand = "left"
    /\ ret.data.active
    /\ ~ret.data.state
    /\ session_data.hand_sources["left"].bind_state.input.click
    /\ session_data.hand_sources["left"].bind_state.click_changed

----------------------------------------------------------------------------
(* The raw space of a hand (input.rs)                                      *)

\* Position of a thread that found the hand's raw slot empty and still
\* holds the session's read guard.
locating(hand) == IF hand = "left" THEN "raw_left" ELSE "raw_right"

\* The pose a controller read returns: the raw space related to the space
\* of the origin, or the pose of an empty location.
raw_pose(raw, origin) ==
    IF raw = 0 THEN DefaultPose ELSE located_pose(raw_at(world, "none"), origin)

\* A slot that is looked at again before a space is created for it.
try_get_or_init_raw_checks_again(data, hand) ==
    IF data.raw[hand] /= 0 THEN [data |-> data, panic |-> FALSE]
    ELSE IF ~data.aim_valid[hand] THEN [data |-> data, panic |-> FALSE]
    ELSE [data |-> [data EXCEPT !.raw_created[hand] = @ + 1,
                                !.raw[hand] = data.raw_created[hand] + 1],
          panic |-> FALSE]

\* HandSpaces::try_get_or_init_raw past the empty slot: aim is located
\* relative to grip; without a valid position and orientation nothing is
\* created; else the space is created and set, unreachable!() when the
\* slot has been filled in the meantime.
try_get_or_init_raw(data, hand) ==
    IF ~data.aim_valid[hand] THEN [data |-> data, panic |-> FALSE]
    ELSE LET created == [data EXCEPT !.raw_created[hand] = @ + 1]
         IN  IF data.raw[hand] /= 0
             THEN [data |-> created, panic |-> TRUE]
             ELSE [data |-> [created EXCEPT !.raw[hand] = created.raw_created[hand]],
                   panic |-> FALSE]

\* Input::get_controller_pose on thread `t`, up to the look at the raw
\* slot: None without legacy actions, the pose of the raw space when the
\* slot is full.
get_controller_pose_find(t, hand, origin) ==
    /\ Idle(t)
    /\ IF ~get_legacy_actions(session_data)
       THEN /\ ret' = [NoRet EXCEPT !.op = "Input_get_controller_pose", !.hand = hand,
                                    !.origin = origin]
            /\ UNCHANGED pc
       ELSE IF session_data.raw[hand] /= 0
       THEN /\ ret' = [NoRet EXCEPT !.op = "Input_get_controller_pose", !.hand = hand,
                                    !.origin = origin, !.ok = TRUE,
                                    !.pose = raw_pose(session_data.raw[hand], origin)]
            /\ UNCHANGED pc
       ELSE /\ pc' = [pc EXCEPT ![t] = locating(hand)]
            /\ UNCHANGED ret
    /\ UNCHANGED <<handle_vars, loaded_actions_path, session_data, panicked,
                   remembered, legacy_vars>>
    /\ UNCHANGED <<bind_vars, pose_vars>>

\* Input::get_controller_pose from the empty slot on: the raw space is
\* created if aim can be located, and the pose is that of the raw space or
\* an empty one.
get_controller_pose_init(t, hand, origin) ==
    /\ pc[t] = locating(hand) /\ ~panicked
    /\ LET got == try_get_or_init_raw(session_data, hand)
       IN  /\ session_data' = got.data
           /\ panicked' = got.panic
           /\ IF got.panic
              THEN UNCHANGED <<pc, ret>>
              ELSE /\ pc' = [pc EXCEPT ![t] = "idle"]
                   /\ ret' = [NoRet EXCEPT !.op = "Input_get_controller_pose",
                                           !.hand = hand, !.origin = origin, !.ok = TRUE,
                                           !.pose = raw_pose(got.data.raw[hand], origin)]
    /\ UNCHANGED <<handle_vars, loaded_actions_path, remembered, legacy_vars>>
    /\ UNCHANGED <<bind_vars, pose_vars>>

\* The runtime starts or stops locating a hand's aim pose.
XrAim(hand, valid) ==
    /\ session_data.aim_valid[hand] /= valid
    /\ session_data' = [session_data EXCEPT !.aim_valid[hand] = valid]
    /\ UNCHANGED <<handle_vars, loaded_actions_path, panicked, pc, ret, remembered,
                   legacy_vars>>
    /\ UNCHANGED <<bind_vars, pose_vars>>

\* Two threads that read the controllers' poses while frames start, aim
\* comes and goes and the session is restarted.
NextRaw ==
    \/ RestartSession
    \/ frame_start_update_begin("app")
    \/ frame_start_update_setup("app")
    \/ frame_start_update_store("app")
    \/ \E t \in Threads, h \in Hands, o \in Origins : get_controller_pose_find(t, h, o)
    \/ \E t \in Threads, h \in Hands, o \in Origins : get_controller_pose_init(t, h, o)
    \/ \E h \in Hands, valid \in BOOLEAN : XrAim(h, valid)

SpecRaw == Init /\ [][NextRaw]_vars

\* The session is replaced in this step.
SessionReplaced == get_legacy_actions(session_data) /\ ~get_legacy_actions(session_data')

\* A read of `hand` that found the raw slot empty completes in this step.
RawAttempt(hand) ==
    \E t \in Threads : pc[t] = locating(hand) /\ (pc'[t] = "idle" \/ panicked')

\* C37: for each hand the raw space is created at most once per session,
\* only when aim is located with a valid position and orientation, and is
\* never replaced afterwards; when aim cannot be located nothing is cached,
\* the pose of that read is invalid, and a later read tries again.
C37_RawOncePerSession ==
    [][\A h \in Hands :
          /\ session_data'.raw_created[h] <= 1
          /\ session_data'.raw_created[h] > session_data.raw_created[h] =>
                 session_data.aim_valid[h]
          /\ (session_data.raw[h] /= 0 /\ ~SessionReplaced) =>
                 session_data'.raw[h] = session_data.raw[h]
          /\ (RawAttempt(h) /\ ~session_data.aim_valid[h] /\ session_data.raw[h] = 0) =>
                 /\ session_data'.raw[h] = 0
                 /\ session_data'.raw_created[h] = session_data.raw_created[h]
                 /\ ret'.op = "Input_get_controller_pose" /\ ret'.pose = DefaultPose
          /\ (RawAttempt(h) /\ session_data.aim_valid[h] /\ session_data.raw[h] = 0) =>
                 /\ session_data'.raw[h] /= 0
                 /\ ret'.pose = raw_pose(session_data'.raw[h], ret'.origin)]_vars

\* What does hold: a filled slot keeps its space for the rest of the
\* session, a space is created only while aim is located, and a hand gets
\* at most one space per thread that reads its pose.
RawNeverReplaced ==
    [][\A h \in Hands :
          /\ session_data'.raw_created[h] <= Cardinality(Threads)
          /\ session_data'.raw_created[h] > session_data.raw_created[h] =>
                 session_data.aim_valid[h]
          /\ (session_data.raw[h] /= 0 /\ ~SessionReplaced) =>
                 session_data'.raw[h] = session_data.raw[h]]_vars

\* Two threads each created a raw space for the same hand in one session,
\* and the second one panicked on the full slot.
RawCreatedTwice ==
    \E h \in Hands : session_data.raw_created[h] = 2 /\ session_data.raw[h] = 1 /\ panicked

\* A read that could not locate aim returned an empty pose and left the
\* slot empty.
RawAttemptFailed ==
    /\ ret.op = "Input_get_controller_pose" /\ ret.ok /\ ret.pose = DefaultPose
    /\ session_data.raw[ret.hand] = 0

----------------------------------------------------------------------------
(* Generic trackers after an enumeration (input/devices.rs)                *)

\* The external devices a generic tracker is created for.
creatable(xdevs) ==
    SelectSeq(xdevs, LAMBDA x : x.can_create_space /\ name_contains_tracker(x.name))

\* Serials of the generic trackers of a table, in the order of the table.
tracker_serials(list) ==
    LET trackers == SelectSeq(list, LAMBDA d : d.device_type.kind = "GenericTracker")
    IN  [i \in 1..Len(trackers) |-> trackers[i].device_type.serial]

\* The trackers of the table after an enumeration of `xdevs` are the first
\* creatable ones, as many as fit beside the other devices, each once.
FirstCreatable(list, after, xdevs) ==
    LET others == Len(list) - Len(tracker_serials(list))
        usable == creatable(xdevs)
        serials == tracker_serials(after)
    IN  /\ serials = [i \in 1..Len(serials) |-> usable[i].serial]
        /\ Len(serials) = IF Len(usable) > k_unMaxTrackedDeviceCount - others
                          THEN k_unMaxTrackedDeviceCount - others
                          ELSE Len(usable)
        /\ \A i, j \in 1..Len(serials) : serials[i] = serials[j] => i = j

\* Every device of `list` that is no tracker is found at its index in
\* `after`.
KeepIndex(list, after) ==
    \A i \in 1..Len(list) :
        list[i].device_type.kind /= "GenericTracker" =>
            i <= Len(after) /\ after[i] = list[i]

\* The devices of `list` that are no trackers are those of `after`, in the
\* same order.
KeepOrder(list, after) ==
    SelectSeq(after, LAMBDA d : d.device_type.kind /= "GenericTracker")
        = SelectSeq(list, LAMBDA d : d.device_type.kind /= "GenericTracker")

\* C38: after each enumeration of the generic trackers the trackers of the
\* table are exactly the first k creatable tracker devices of the current
\* list of external devices, in its order, k bounded by the remaining
\* capacity; no tracker of an earlier enumeration remains, none appears
\* twice, and every other device keeps the index it had.
C38_TrackersReplaced ==
    [][\A x \in XDevLists :
          CreateMonadoGenericTrackers(TRUE, x) =>
              /\ FirstCreatable(session_data.devices, session_data'.devices, x)
              /\ KeepIndex(session_data.devices, session_data'.devices)]_vars

\* What does hold: the trackers are the first creatable ones that fit, and
\* the other devices keep their order; a device keeps its index when no
\* tracker stood before it.
TrackersReplacedInOrder ==
    [][\A x \in XDevLists :
          CreateMonadoGenericTrackers(TRUE, x) =>
              /\ FirstCreatable(session_data.devices, session_data'.devices, x)
              /\ KeepOrder(session_data.devices, session_data'.devices)
              /\ \A i \in 1..Len(session_data.devices) :
                    (\A j \in 1..i :
                        session_data.devices[j].device_type.kind /= "GenericTracker")
                       => session_data'.devices[i] = session_data.devices[i]]_vars

\* A controller stands behind a tracker in the table: the next enumeration
\* that lists fewer trackers moves it.
ControllerBehindTracker ==
    \E i, j \in 1..Len(session_data.devices) :
        /\ i < j
        /\ session_data.devices[i].device_type.kind = "GenericTracker"
        /\ session_data.devices[j].device_type.kind = "Controller"

----------------------------------------------------------------------------
(* The session lock (input/legacy.rs, input/devices.rs)                    *)

\* Device indices the calls below are made with: the HMD and the left
\* controller.
LockedIndices == {0, 1}

\* Position of a thread inside get_legacy_controller_state that holds the
\* guard `data` and has not looked the hand up yet.
glcs_data(device_index) == IF device_index = 1 THEN "glcs_data_left" ELSE "glcs_data_hmd"

\* Another thread has asked for the session's write lock and waits for it.
WriterWaiting(t) == \E u \in Threads \ {t} : pc[u] = "restart_wait"

\* OpenXrData::restart_session on thread `t`, up to the request for the
\* write lock.
restart_session_wait(t) ==
    /\ Idle(t)
    /\ pc' = [pc EXCEPT ![t] = "restart_wait"]
    /\ UNCHANGED <<handle_vars, loaded_actions_path, session_data, panicked, ret,
                   remembered, legacy_vars>>
    /\ UNCHANGED <<bind_vars, pose_vars>>

\* OpenXrData::restart_session once no read guard is left: the session is
\* replaced under the write lock.
restart_session_write(t) ==
    /\ pc[t] = "restart_wait" /\ ~panicked
    /\ restart_session(t)
    /\ pc' = [pc EXCEPT ![t] = "idle"]
    /\ ret' = RetIndex("restart_session", 0, TRUE)
    /\ UNCHANGED <<input_source_map, remembered, legacy_vars>>
    /\ UNCHANGED <<bind_vars, world>>

\* session_data.get() by a thread that holds a read guard already, while a
\* writer waits: a lock that lets no reader pass a waiting writer puts the
\* thread to sleep until the writer is done.
session_data_get_queued(t) ==
    /\ pc[t] \in {"glcs_data_hmd", "glcs_data_left", "glcs_hand", "lh_data"}
    /\ ~panicked
    /\ WriterWaiting(t)
    /\ pc' = [pc EXCEPT ![t] = "read_queued"]
    /\ UNCHANGED <<handle_vars, loaded_actions_path, session_data, panicked, ret,
                   remembered, legacy_vars>>
    /\ UNCHANGED <<bind_vars, pose_vars>>

\* Input::get_legacy_controller_state on thread `t`, up to the hand: the
\* checks of the size, the guard `data` (taken once no writer waits), no
\* state with loaded actions or without legacy actions.
get_legacy_controller_state_data(t, device_index, size_matches) ==
    /\ Idle(t)
    /\ ~WriterWaiting(t)
    /\ Len(events) < MaxEvents
    /\ IF size_matches /\ ~get_loaded_actions(session_data)
          /\ get_legacy_actions(session_data)
       THEN /\ pc' = [pc EXCEPT ![t] = glcs_data(device_index)]
            /\ UNCHANGED ret
       ELSE /\ \E prior \in PriorControllerState :
                  ret' = [RetIndex("get_legacy_controller_state", device_index, FALSE)
                             EXCEPT !.state = IF ~size_matches THEN prior
                                              ELSE NoControllerState]
            /\ UNCHANGED pc
    /\ UNCHANGED <<handle_vars, loaded_actions_path, session_data, panicked,
                   remembered, legacy_vars>>
    /\ UNCHANGED <<bind_vars, pose_vars>>

\* get_legacy_controller_state: device_index_to_hand, which takes and
\* drops a second guard; no state for an index that is no controller.
get_legacy_controller_state_hand(t, device_index) ==
    /\ pc[t] = glcs_data(device_index) /\ ~panicked
    /\ IF device_index_to_hand(device_index) = "none"
       THEN /\ ret' = RetIndex("get_legacy_controller_state", device_index, FALSE)
            /\ pc' = [pc EXCEPT ![t] = "idle"]
       ELSE /\ pc' = [pc EXCEPT ![t] = "glcs_hand"]
            /\ UNCHANGED ret
    /\ UNCHANGED <<handle_vars, loaded_actions_path, session_data, panicked,
                   remembered, legacy_vars>>
    /\ UNCHANGED <<bind_vars, pose_vars>>

\* get_legacy_controller_state: the second guard `data`, and the read of
\* the left controller's state.
get_legacy_controller_state_read(t) ==
    /\ pc[t] = "glcs_hand" /\ ~panicked
    /\ LET hand == device_index_to_hand(1)
           first == ~legacy_state.got_state_this_frame[hand]
           actions == session_data.action_state[hand]
       IN  /\ ret' = [RetIndex("get_legacy_controller_state", 1, TRUE)
                        EXCEPT !.state = read_controller_state(legacy_state.packet_num,
                                                               actions)]
           /\ legacy_state' = [legacy_state EXCEPT !.got_state_this_frame[hand] = TRUE]
           /\ events' = IF first
                        THEN events \o button_events(1, actions, legacy_state.packet_num)
                        ELSE events
    /\ pc' = [pc EXCEPT ![t] = "idle"]
    /\ UNCHANGED <<handle_vars, loaded_actions_path, session_data, panicked,
                   remembered, xr_input>>
    /\ UNCHANGED <<bind_vars, pose_vars>>

\* Input::legacy_haptic on thread `t`, up to the call of
\* legacy_haptic_via_manifest: the hand, the guard `data`, and the legacy
\* vibration when no manifest is loaded.
legacy_haptic_data(t, device_index) ==
    /\ Idle(t)
    /\ ~WriterWaiting(t)
    /\ LET hand == device_index_to_hand(device_index)
           applied == IF hand = "none" \/ ~get_legacy_actions(session_data) THEN {}
                      ELSE {Vibration(LegacyHaptic, hand)}
       IN  IF hand /= "none" /\ get_loaded_actions(session_data)
           THEN /\ pc' = [pc EXCEPT ![t] = "lh_data"]
                /\ UNCHANGED ret
           ELSE /\ ret' = [NoRet EXCEPT !.op = "legacy_haptic", !.index = device_index,
                                        !.hand = hand, !.ok = (applied /= {}),
                                        !.haptic = applied]
                /\ UNCHANGED pc
    /\ UNCHANGED <<handle_vars, loaded_actions_path, session_data, panicked,
                   remembered, legacy_vars>>
    /\ UNCHANGED <<bind_vars, pose_vars>>

\* legacy_haptic_via_manifest under the guard of legacy_haptic: the
\* session is taken from a second guard for apply_feedback.
legacy_haptic_apply(t) ==
    /\ pc[t] = "lh_data" /\ ~panicked
    /\ LET applied == legacy_haptic_via_manifest(session_data.loaded_actions, "left")
       IN  ret' = [NoRet EXCEPT !.op = "legacy_haptic", !.index = 1, !.hand = "left",
                                !.ok = (applied /= {}), !.haptic = applied]
    /\ pc' = [pc EXCEPT ![t] = "idle"]
    /\ UNCHANGED <<handle_vars, loaded_actions_path, session_data, panicked,
                   remembered, legacy_vars>>
    /\ UNCHANGED <<bind_vars, pose_vars>>

\* What the application's thread does: it loads its manifest, syncs and
\* restarts the session.
AppCalls ==
    \/ SetActionManifestPath_begin
    \/ SetActionManifestPath_restart
    \/ SetActionManifestPath_load
    \/ UpdateActionState(<<as_ffi(KeyAt(1))>>)
    \/ restart_session_wait("app")
    \/ restart_session_write("app")

\* What the frame thread does: frames, legacy state and haptics.
FrameCalls ==
    \/ frame_start_update_begin("frame")
    \/ frame_start_update_setup("frame")
    \/ frame_start_update_store("frame")
    \/ \E d \in LockedIndices, m \in BOOLEAN : get_legacy_controller_state_data("frame", d, m)
    \/ \E d \in LockedIndices : get_legacy_controller_state_hand("frame", d)
    \/ get_legacy_controller_state_read("frame")
    \/ \E d \in LockedIndices : legacy_haptic_data("frame", d)
    \/ legacy_haptic_apply("frame")
    \/ session_data_get_queued("frame")

NextLock == AppCalls \/ FrameCalls

\* Both threads are scheduled, and the lock starves nobody: a thread that
\* can take a step again and again takes it in the end.
SpecLock == InitRace /\ [][NextLock]_vars /\ SF_vars(AppCalls) /\ SF_vars(FrameCalls)

\* C39: no entry point blocks forever on the session lock:
\* get_legacy_controller_state, legacy_haptic, frame_start_update and
\* UpdateActionState running next to a session restart always return, also
\* when a reader takes the read lock again while it holds it and a writer
\* waits.
C39_CallsReturn ==
    \A t \in Threads : (pc[t] /= "idle") ~> (pc[t] = "idle" \/ panicked)

\* What does hold: a thread only ever waits for the session lock, as a
\* writer for the readers or as a reader behind a waiting writer, and a
\* call that takes the lock once returns.
OnlyNestedReadsBlock ==
    (~panicked /\ ~ENABLED NextLock) =>
        /\ pc["app"] = "restart_wait"
        /\ pc["frame"] = "read_queued"

\* The frame thread holds a read guard and sleeps behind the writer, which
\* waits for that guard.
SessionLockDeadlock ==
    /\ pc["app"] = "restart_wait"
    /\ pc["frame"] = "read_queued"
    /\ ~panicked

----------------------------------------------------------------------------
(* The five directions of one dpad (input/custom_bindings.rs, input.rs)    *)

\* Coordinates of the parent vector2 that are explored: the centre, the
\* edge of the centre zone, points inside it and points outside it; the
\* grid holds the four diagonals and points of radius exactly 0.5 on and
\* off the axes.
DpadCoordinates == {-500, -400, -300, 0, 300, 400, 500}

\* The directions in the order the results are listed in.
DirectionList == <<"North", "East", "South", "West", "Center">>

\* The directions whose DpadData::state finds the parent's value in
\* bounds.
directions_in_bounds(x, y) ==
    SelectSeq(DirectionList, LAMBDA d : in_bounds(d, x, y))

\* The five dpads bound to one parent are evaluated on its current value,
\* their activator being pressed.
DpadData_state_all ==
    /\ Idle("app")
    /\ bind_input.active
    /\ ret' = [NoRet EXCEPT !.op = "DpadData_state", !.ok = TRUE,
                            !.name = directions_in_bounds(bind_input.x, bind_input.y)]
    /\ UNCHANGED <<handle_vars, loaded_actions_path, session_data, panicked, pc,
                   remembered, legacy_vars>>
    /\ UNCHANGED <<bind_vars, pose_vars>>

InitDpad ==
    /\ Input_new(SessionData(FALSE), NoRet)
    /\ binding_kind = "Dpad"
    /\ binding_params = NoParams

\* The stick of `input` pressed with a force of 0.4 and moved to (x, y).
stick_at(input, x, y) ==
    [input EXCEPT !.active = TRUE, !.click = TRUE, !.force = 400, !.x = x, !.y = y]

\* The user moves the stick over the grid and the dpads are evaluated.
NextDpad ==
    \/ \E x, y \in DpadCoordinates : XrBindInput(stick_at(bind_input, x, y))
    \/ DpadData_state_all

SpecDpad == InitDpad /\ [][NextDpad]_vars

\* C40: for any value of the parent vector2 at most one of the five dpad
\* directions bound to it evaluates as in bounds, also for angles on a
\* wedge boundary and for a radius of exactly 0.5.
C40_OneDirection ==
    ret.op = "DpadData_state" => Len(ret.name) <= 1

\* What does hold: some direction is in bounds for every value, two only
\* on a diagonal outside the centre zone, those being the directions on
\* either side of it, and never more than two; on the edge of the centre
\* zone Center is out of bounds.
OneDirectionOffTheDiagonals ==
    [][(ret'.op = "DpadData_state" /\ ret' /= ret) =>
          LET x == bind_input.x
              y == bind_input.y
          IN  /\ Len(ret'.name) \in {1, 2}
              /\ Len(ret'.name) = 2 <=>
                    (abs(x) = abs(y) /\ x * x + y * y >= CENTER_ZONE * CENTER_ZONE)
              /\ Len(ret'.name) = 2 =>
                    {ret'.name[1], ret'.name[2]} =
                        {IF y > 0 THEN "North" ELSE "South",
                         IF x > 0 THEN "East" ELSE "West"}
              /\ x * x + y * y = CENTER_ZONE * CENTER_ZONE =>
                    ret'.name[Len(ret'.name)] /= "Center"]_vars

\* The stick at (0.5, 0.5), on the boundary between north and east: both
\* dpads are in bounds.
NorthAndEast ==
    /\ ret.op = "DpadData_state"
    /\ ret.name = <<"North", "East">>
    /\ bind_input.x = 500 /\ bind_input.y = 500

============================================================================
